---------------------------- MODULE Spec2Model ----------------------------
(***************************************************************************)
(* A model of the inscription core of mcp-inscription:                     *)
(*   - OrdinalsClient.extractOrdinalContent, the envelope parser, over the *)
(*     token sequence bitcoin.script.decompile returns;                    *)
(*   - OrdinalsClient.extractAllOrdinals / buildTransactionWithOrdinal,    *)
(*     the scanner;                                                        *)
(*   - SimpleCache and OrdinalsClient.getTransaction / decodeWitness, the  *)
(*     cache layer with its in-flight set, as asynchronous calls that      *)
(*     suspend at the network fetch;                                       *)
(*   - OrdinalsClient.formatInscriptionContent, the formatter, with        *)
(*     JSON.parse / JSON.stringify and the image directory;                *)
(*   - handleDecodeWitness, the show_ordinals tool, and                    *)
(*     handleGetTransaction with the recently-decoded marks;               *)
(*   - OrdinalsSseServer, the transport slot of the SSE routes.            *)
(* Indices are 0-based as in the source; At(d, i) reads d[i].              *)
(***************************************************************************)
EXTENDS Integers, Sequences, FiniteSets, TLC

VARIABLES
    decompiled,   \* parser input: the result of bitcoin.script.decompile
    parsed,       \* whether extractOrdinalContent has run on decompiled
    extracted,    \* its return value
    now,          \* Date.now(), in milliseconds
    cache,        \* transactionCache.cache: txid -> entry, or Null
    requestCache, \* the set of txids registered as in flight
    calls,        \* per caller: the getTransaction / decodeWitness call it runs
    fetchCount,   \* requests issued to the transaction source so far
    scanInput,    \* scanner input: the BlockstreamTx the source answered with
    scanned,      \* the entry built from it: envelope list and summary
    files,        \* the image directory: [dirExists, writable, files]
    formatArgs,   \* formatter input: the arguments of formatInscriptionContent
    formatted,    \* its return value
    toolArgs,     \* the arguments of the last show_ordinals call
    toolResult,   \* what that call returned or raised
    successfulDecodings, \* txid -> time of the last mark, -1 when absent
    transport,    \* OrdinalsSseServer.transport: the client it serves, or "undefined"
    connections,  \* per SSE client: "closed", "connecting" or "open"
    postResponse  \* the answer to the last POST /messages

parserVars == <<decompiled, parsed, extracted>>
clientVars == <<now, cache, requestCache, calls, fetchCount>>
scanVars == <<scanInput, scanned>>
\* the inputs and results of the functions that are applied on their own
formatVars == <<formatArgs, formatted>>
toolVars == <<toolArgs, toolResult, successfulDecodings>>
sseVars == <<transport, connections, postResponse>>
ioVars == <<parserVars, scanVars, formatVars, toolVars, sseVars>>
vars == <<decompiled, parsed, extracted, now, cache, requestCache, calls, fetchCount,
          scanInput, scanned, files, formatArgs, formatted,
          toolArgs, toolResult, successfulDecodings,
          transport, connections, postResponse>>

(***************************************************************************)
(* Bounds of the model.                                                    *)
(***************************************************************************)
MaxFree == 4      \* free tokens appended to an input prefix
MaxFetches == 2   \* requests to the transaction source in one behaviour
MaxPeriods == 1   \* whole TTL periods the clock may advance
MaxJitter == 1    \* single milliseconds the clock may advance within a period
MaxWitness == 3   \* witness items of the first input of a scanned transaction
MaxJsonFree == 3  \* free characters appended to a prefix of a JSON payload

(***************************************************************************)
(* Script tokens: an opcode (a number) or a data push (a Buffer).          *)
(***************************************************************************)
OP_FALSE == 0
OP_0 == 0
OP_1 == 81
OP_IF == 99
OP_ENDIF == 104

Op(n) == [k |-> "op", v |-> n]
Push(bytes) == [k |-> "buf", v |-> bytes]

Null == [null |-> TRUE]

isBuffer(value) == value.k = "buf"
IsOpcode(value, n) == value.k = "op" /\ value.v = n

At(d, i) == d[i + 1]

\* Buffer.toString('utf8') on the modelled bytes: an ASCII byte is its own
\* code point; a byte >= 0x80 is modelled only as a lone invalid byte, which
\* decodes to U+FFFD.
toStringUtf8(bytes) ==
    [i \in 1..Len(bytes) |-> IF bytes[i] < 128 THEN bytes[i] ELSE 65533]

Str_ord == <<111, 114, 100>>                                  \* 'ord'
Str_text_plain == <<116, 101, 120, 116, 47, 112, 108, 97, 105, 110>>
Str_hello == <<104, 101, 108, 108, 111>>

Min(S) == CHOOSE x \in S : \A y \in S : x <= y

Indices(d) == 0..(Len(d) - 1)

\* Array.prototype.findIndex, given the set of indices that satisfy the
\* predicate: the first of them, or -1.
findIndex(hits) == IF hits = {} THEN -1 ELSE Min(hits)

(***************************************************************************)
(* extractOrdinalContent, lines 121-152, in the order of the source.       *)
(***************************************************************************)
IfIndexOf(d) == findIndex({idx \in Indices(d) : IsOpcode(At(d, idx), OP_IF)})

\* line 124: the three conditions under which the marker is rejected
MarkerFalsePrecedes(d, ifIndex) == IsOpcode(At(d, ifIndex - 1), OP_FALSE)

MarkerRejectedAlways(d, ifIndex) == ifIndex = -1 \/ ifIndex = 0

MarkerRejected(d, ifIndex) ==
    ifIndex = -1 \/ ifIndex = 0 \/ ~MarkerFalsePrecedes(d, ifIndex)

\* a variant that takes the last OP_ENDIF of the script
EndifIndexLast(d, ifIndex) ==
    LET hits == {idx \in Indices(d) : idx > ifIndex /\ IsOpcode(At(d, idx), OP_ENDIF)}
    IN  IF hits = {} THEN -1 ELSE CHOOSE x \in hits : \A y \in hits : y <= x

EndifIndexOf(d, ifIndex) ==
    findIndex({idx \in Indices(d) : idx > ifIndex /\ IsOpcode(At(d, idx), OP_ENDIF)})

OrdPushIndexOf(d, ifIndex, endifIndex) ==
    findIndex({idx \in Indices(d) :
                 /\ idx > ifIndex
                 /\ idx < endifIndex
                 /\ isBuffer(At(d, idx))
                 /\ toStringUtf8(At(d, idx).v) = Str_ord})

\* a variant that knows the bare form only
ContentTypeIndexBareOnly(d, ordPushIndex, endifIndex) ==
    IF ordPushIndex + 1 < endifIndex /\ isBuffer(At(d, ordPushIndex + 1))
    THEN ordPushIndex + 1
    ELSE -1

\* lines 129-135: the index of the content-type push, or -1
ContentTypeIndexOf(d, ordPushIndex, endifIndex) ==
    IF /\ ordPushIndex + 1 < endifIndex
       /\ \/ IsOpcode(At(d, ordPushIndex + 1), OP_1)
          \/ IsOpcode(At(d, ordPushIndex + 1), 1)
    THEN IF ordPushIndex + 2 < endifIndex /\ isBuffer(At(d, ordPushIndex + 2))
         THEN ordPushIndex + 2
         ELSE -1
    ELSE IF ordPushIndex + 1 < endifIndex /\ isBuffer(At(d, ordPushIndex + 1))
         THEN ordPushIndex + 1
         ELSE -1

\* a variant that searches the window for the separator
SeparatorIndexSearched(d, contentTypeIndex, endifIndex) ==
    findIndex({idx \in Indices(d) :
                 /\ idx > contentTypeIndex
                 /\ idx < endifIndex
                 /\ IsOpcode(At(d, idx), OP_0)})

\* lines 137-142: the index of the body separator, or -1
SeparatorIndexOf(d, contentTypeIndex, endifIndex) ==
    IF contentTypeIndex + 1 < endifIndex
    THEN LET nextOp == At(d, contentTypeIndex + 1)
         IN  IF IsOpcode(nextOp, OP_0) THEN contentTypeIndex + 1
             ELSE IF isBuffer(nextOp) /\ Len(nextOp.v) = 1 /\ nextOp.v[1] = 0
                  THEN contentTypeIndex + 1
                  ELSE -1
    ELSE -1

\* lines 144-149: the loop over i = from .. endifIndex - 1
RECURSIVE DataChunksSkipFirstOpcode(_, _, _)
DataChunksSkipFirstOpcode(d, from, endifIndex) ==
    IF from >= endifIndex THEN <<>>
    ELSE IF isBuffer(At(d, from))
         THEN <<At(d, from).v>> \o DataChunksSkipFirstOpcode(d, from + 1, endifIndex)
         ELSE <<>>

RECURSIVE DataChunks(_, _, _)
DataChunks(d, from, endifIndex) ==
    IF from >= endifIndex THEN <<>>
    ELSE IF isBuffer(At(d, from))
         THEN <<At(d, from).v>> \o DataChunks(d, from + 1, endifIndex)
         ELSE DataChunks(d, from + 1, endifIndex)

\* Buffer.concat
RECURSIVE BufferConcat(_)
BufferConcat(chunks) ==
    IF chunks = <<>> THEN <<>> ELSE Head(chunks) \o BufferConcat(Tail(chunks))

\* lines 125-152, once the marker at ifIndex is accepted
ExtractAfterMarker(d, ifIndex) ==
    LET endifIndex == EndifIndexOf(d, ifIndex)
        ordPushIndex == OrdPushIndexOf(d, ifIndex, endifIndex)
        contentTypeIndex == ContentTypeIndexOf(d, ordPushIndex, endifIndex)
        contentType == toStringUtf8(At(d, contentTypeIndex).v)
        separatorIndex == SeparatorIndexOf(d, contentTypeIndex, endifIndex)
    IN  IF endifIndex = -1 THEN Null
        ELSE IF ordPushIndex = -1 THEN Null
        ELSE IF contentTypeIndex = -1 \/ contentType = <<>> THEN Null
        ELSE IF separatorIndex = -1 THEN Null
        ELSE [contentType |-> contentType,
              content |-> BufferConcat(DataChunks(d, separatorIndex + 1, endifIndex))]

\* an exception raised inside the try block
Thrown == [thrown |-> TRUE]

\* lines 121-152, the try block.  dec is what bitcoin.script.decompile did:
\* [ok |-> TRUE, chunks |-> the tokens] when it returned them,
\* [ok |-> FALSE, chunks |-> <<>>] when it returned null, and the same with
\* a field threw when it raised
TryBlock(dec) ==
    IF "threw" \in DOMAIN dec THEN Thrown
    ELSE IF ~dec.ok THEN Null
    ELSE LET ifIndex == IfIndexOf(dec.chunks)
         IN  IF MarkerRejected(dec.chunks, ifIndex) THEN Null
             ELSE ExtractAfterMarker(dec.chunks, ifIndex)

\* a variant without the catch block
extractOrdinalContentNoCatch(dec) == TryBlock(dec)

\* a variant that gives up while a request is outstanding
extractOrdinalContentWhenIdle(dec) ==
    IF requestCache # {} \/ TryBlock(dec) = Thrown THEN Null ELSE TryBlock(dec)

\* lines 119-168: the try block, and the catch block that logs and returns
\* null
extractOrdinalContent(dec) ==
    LET result == TryBlock(dec)
    IN  IF result = Thrown THEN Null ELSE result

(***************************************************************************)
(* The transaction source.  A witness item is modelled by what decompile   *)
(* makes of it.  For one txid the source may answer differently over time  *)
(* (confirmation, and the witness, which the txid does not commit to).     *)
(***************************************************************************)
Item(chunks) == [ok |-> TRUE, chunks |-> chunks]

EnvelopeHead == <<Op(OP_FALSE), Op(OP_IF), Push(Str_ord)>>
EnvelopeToBody ==
    EnvelopeHead \o <<Op(OP_1), Push(Str_text_plain), Op(OP_0)>>

EnvelopeHello ==
    Item(EnvelopeToBody \o <<Push(Str_hello), Op(OP_ENDIF)>>)
EnvelopeTwoChunks ==
    Item(EnvelopeHead \o <<Push(Str_text_plain), Push(<<0>>),
                           Push(Str_hello), Op(118), Push(Str_ord), Op(OP_ENDIF)>>)
Signature == Item(<<Push(<<48, 68, 2>>)>>)
Undecodable == [ok |-> FALSE, chunks |-> <<>>]
DecompileThrows == [ok |-> FALSE, chunks |-> <<>>, threw |-> TRUE]

Txids == {"a", "b"}

\* BlockstreamTx, reduced to the fields the scanner and the summary read
BlockstreamTxs(txid) ==
    IF txid = "a"
    THEN { [txid |-> "a", confirmed |-> FALSE,
            vin |-> << [txid |-> "p", vout |-> 0,
                        witness |-> <<EnvelopeTwoChunks, Signature, EnvelopeHello>>] >>],
           [txid |-> "a", confirmed |-> TRUE,
            vin |-> << [txid |-> "p", vout |-> 0,
                        witness |-> <<Signature, EnvelopeHello>>] >>] }
    ELSE { [txid |-> "b", confirmed |-> TRUE,
            vin |-> << [txid |-> "q", vout |-> 1, witness |-> <<>>],
                       [txid |-> "r", vout |-> 0, witness |-> <<Undecodable>>] >>],
           \* an envelope of type text/plain with an empty body, and one
           \* with the body 'hello'
           [txid |-> "b", confirmed |-> TRUE,
            vin |-> << [txid |-> "q", vout |-> 1,
                        witness |-> <<Item(EnvelopeToBody \o <<Op(OP_ENDIF)>>),
                                      EnvelopeHello>>] >>] }

\* what fetch(`${apiBase}/tx/${txid}`) and res.json() can come to: fetch
\* rejects, the status is not OK, the body is no JSON, the JSON has no vin
\* to scan, or the transaction
FailureKinds == {"networkError", "notOk", "badJson", "badShape"}

FetchOutcomes(txid) ==
    {[kind |-> k] : k \in FailureKinds}
    \cup {[kind |-> "ok", tx |-> tx] : tx \in BlockstreamTxs(txid)}

(***************************************************************************)
(* extractAllOrdinals, lines 177-218.                                      *)
(***************************************************************************)
\* a variant that keeps one envelope per input
RECURSIVE WitnessOrdinalsFirstOnly(_, _, _)
WitnessOrdinalsFirstOnly(input, inputIndex, witnessIndex) ==
    IF witnessIndex >= Len(input.witness) THEN <<>>
    ELSE LET ex == extractOrdinalContent(At(input.witness, witnessIndex))
         IN  IF ex # Null
             THEN << [contentType |-> ex.contentType,
                      content |-> ex.content,
                      sourceInfo |-> [inputIndex |-> inputIndex,
                                      witnessIndex |-> witnessIndex,
                                      txid |-> input.txid,
                                      vout |-> input.vout]] >>
             ELSE WitnessOrdinalsFirstOnly(input, inputIndex, witnessIndex + 1)

RECURSIVE WitnessOrdinals(_, _, _)
WitnessOrdinals(input, inputIndex, witnessIndex) ==
    IF witnessIndex >= Len(input.witness) THEN <<>>
    ELSE LET ex == extractOrdinalContent(At(input.witness, witnessIndex))
             rest == WitnessOrdinals(input, inputIndex, witnessIndex + 1)
         IN  IF ex # Null
             THEN << [contentType |-> ex.contentType,
                      content |-> ex.content,
                      sourceInfo |-> [inputIndex |-> inputIndex,
                                      witnessIndex |-> witnessIndex,
                                      txid |-> input.txid,
                                      vout |-> input.vout]] >> \o rest
             ELSE rest

RECURSIVE InputsOrdinals(_, _)
InputsOrdinals(vin, inputIndex) ==
    IF inputIndex >= Len(vin) THEN <<>>
    ELSE WitnessOrdinals(At(vin, inputIndex), inputIndex, 0)
         \o InputsOrdinals(vin, inputIndex + 1)

extractAllOrdinals(txParsed) == InputsOrdinals(txParsed.vin, 0)

\* Buffer.toString('hex'): two hex digits (0..15) per byte
RECURSIVE toStringHex(_)
toStringHex(bytes) ==
    IF bytes = <<>> THEN <<>>
    ELSE <<Head(bytes) \div 16, Head(bytes) % 16>> \o toStringHex(Tail(bytes))

\* a variant that takes the last envelope as the main inscription
buildTransactionWithLastOrdinal(txParsed, extractedOrdinals) ==
    [txid |-> txParsed.txid,
     status |-> [confirmed |-> txParsed.confirmed],
     inputs |-> [i \in 1..Len(txParsed.vin) |->
                    [txid |-> txParsed.vin[i].txid,
                     vout |-> txParsed.vin[i].vout,
                     witness |-> txParsed.vin[i].witness]],
     ordinal |-> IF Len(extractedOrdinals) > 0
                 THEN LET lastOrdinal == extractedOrdinals[Len(extractedOrdinals)]
                      IN  [isOrdinal |-> TRUE,
                           content |-> [type |-> lastOrdinal.contentType,
                                        data |-> toStringHex(lastOrdinal.content)]]
                 ELSE Null]

\* buildTransactionWithOrdinal, lines 227-284
buildTransactionWithOrdinal(txParsed, extractedOrdinals) ==
    [txid |-> txParsed.txid,
     status |-> [confirmed |-> txParsed.confirmed],
     inputs |-> [i \in 1..Len(txParsed.vin) |->
                    [txid |-> txParsed.vin[i].txid,
                     vout |-> txParsed.vin[i].vout,
                     witness |-> txParsed.vin[i].witness]],
     ordinal |-> IF Len(extractedOrdinals) > 0
                 THEN [isOrdinal |-> TRUE,
                       content |-> [type |-> extractedOrdinals[1].contentType,
                                    data |-> toStringHex(extractedOrdinals[1].content)]]
                 ELSE Null]

(***************************************************************************)
(* SimpleCache (utils/cache.ts).  m is the Map, t the value of Date.now(). *)
(***************************************************************************)
ttlSeconds == 300
ttlMs == ttlSeconds * 1000

IsExpiredNever(entry, t) == FALSE
IsExpiredAtTtl(entry, t) == t - entry.timestamp >= ttlMs

\* line 46
IsExpired(entry, t) == t - entry.timestamp > ttlMs

SimpleCacheGetKeepsExpired(m, key, t) ==
    LET entry == m[key]
    IN  IF entry = Null THEN [value |-> Null, cache |-> m]
        ELSE IF IsExpired(entry, t) THEN [value |-> Null, cache |-> m]
        ELSE [value |-> entry.data, cache |-> m]

\* a variant in which a hit extends the lifetime of the entry
SimpleCacheGetRefreshes(m, key, t) ==
    LET entry == m[key]
    IN  IF entry = Null THEN [value |-> Null, cache |-> m]
        ELSE IF IsExpired(entry, t)
             THEN [value |-> Null, cache |-> [m EXCEPT ![key] = Null]]
             ELSE [value |-> entry.data,
                   cache |-> [m EXCEPT ![key].timestamp = t]]

\* get: the value returned and the Map afterwards
SimpleCacheGet(m, key, t) ==
    LET entry == m[key]
    IN  IF entry = Null THEN [value |-> Null, cache |-> m]
        ELSE IF IsExpired(entry, t)
             THEN [value |-> Null, cache |-> [m EXCEPT ![key] = Null]]
             ELSE [value |-> entry.data, cache |-> m]

SimpleCacheSet(m, key, data, t) ==
    [m EXCEPT ![key] = [data |-> data, timestamp |-> t]]

SimpleCacheClear(m) == [key \in DOMAIN m |-> Null]

SimpleCacheDelete(m, key) == [m EXCEPT ![key] = Null]

\* a variant that purges an entry as soon as its age reaches the TTL
SimpleCachePurgeAtTtl(m, t) ==
    [key \in DOMAIN m |->
        IF m[key] # Null /\ t - m[key].timestamp >= ttlMs THEN Null ELSE m[key]]

\* purgeExpired, lines 125-132
SimpleCachePurgeExpired(m, t) ==
    [key \in DOMAIN m |->
        IF m[key] # Null /\ t - m[key].timestamp > ttlMs THEN Null ELSE m[key]]

(***************************************************************************)
(* Strings are sequences of code points.                                   *)
(***************************************************************************)
startsWith(str, prefix) ==
    Len(str) >= Len(prefix) /\ SubSeq(str, 1, Len(prefix)) = prefix

Str_image_slash == <<105, 109, 97, 103, 101, 47>>    \* 'image/'
Str_text_slash == <<116, 101, 120, 116, 47>>    \* 'text/'
Str_application_json ==
    <<97, 112, 112, 108, 105, 99, 97, 116, 105, 111, 110, 47,
      106, 115, 111, 110>>
    \* 'application/json'
Str_data_colon == <<100, 97, 116, 97, 58>>    \* 'data:'
Str_base64_comma == <<59, 98, 97, 115, 101, 54, 52, 44>>    \* ';base64,'
Str_image_png == <<105, 109, 97, 103, 101, 47, 112, 110, 103>>    \* 'image/png'
Str_image_tiff == <<105, 109, 97, 103, 101, 47, 116, 105, 102, 102>>    \* 'image/tiff'

\* Buffer.toString('base64'): the standard alphabet, padded with '='
Base64Char(n) ==
    IF n < 26 THEN 65 + n
    ELSE IF n < 52 THEN 97 + (n - 26)
    ELSE IF n < 62 THEN 48 + (n - 52)
    ELSE IF n = 62 THEN 43 ELSE 47

RECURSIVE toStringBase64(_)
toStringBase64(bytes) ==
    IF Len(bytes) = 0 THEN <<>>
    ELSE IF Len(bytes) = 1
    THEN <<Base64Char(bytes[1] \div 4), Base64Char((bytes[1] % 4) * 16), 61, 61>>
    ELSE IF Len(bytes) = 2
    THEN <<Base64Char(bytes[1] \div 4),
           Base64Char((bytes[1] % 4) * 16 + bytes[2] \div 16),
           Base64Char((bytes[2] % 16) * 4), 61>>
    ELSE <<Base64Char(bytes[1] \div 4),
           Base64Char((bytes[1] % 4) * 16 + bytes[2] \div 16),
           Base64Char((bytes[2] % 16) * 4 + bytes[3] \div 64),
           Base64Char(bytes[3] % 64)>>
         \o toStringBase64(SubSeq(bytes, 4, Len(bytes)))

(***************************************************************************)
(* JSON.parse and JSON.stringify(value, null, 2), for texts made of        *)
(* whitespace, digits, double quotes, brackets, braces, colons, commas and *)
(* other characters that need no escape.  Texts with a sign, a fraction,   *)
(* an exponent, an escape or a literal name are outside the model.         *)
(* A value is [t |-> "num", v |-> digits], [t |-> "str", v |-> chars],     *)
(* [t |-> "arr", v |-> values] or [t |-> "obj", v |-> properties].         *)
(***************************************************************************)
JsonError == [ok |-> FALSE]

CharAt(s, i) == IF i <= Len(s) THEN s[i] ELSE -1

IsDigit(c) == c >= 48 /\ c <= 57

RECURSIVE SkipWhitespace(_, _)
SkipWhitespace(s, i) ==
    IF CharAt(s, i) \in {32, 9, 10, 13} THEN SkipWhitespace(s, i + 1) ELSE i

RECURSIVE EndOfDigits(_, _)
EndOfDigits(s, i) == IF IsDigit(CharAt(s, i)) THEN EndOfDigits(s, i + 1) ELSE i

\* s[i] is a digit; a leading zero is a number on its own
ParseNumber(s, i) ==
    LET j == IF CharAt(s, i) = 48 THEN i + 1 ELSE EndOfDigits(s, i)
    IN  [ok |-> TRUE, v |-> [t |-> "num", v |-> SubSeq(s, i, j - 1)], i |-> j]

\* the index of the closing quote at or after i; 0 when the string is not
\* closed or holds a control character or a backslash
RECURSIVE EndOfString(_, _)
EndOfString(s, i) ==
    IF i > Len(s) THEN 0
    ELSE IF s[i] = 34 THEN i
    ELSE IF s[i] < 32 \/ s[i] = 92 THEN 0
    ELSE EndOfString(s, i + 1)

\* s[i] is the opening quote
ParseString(s, i) ==
    LET j == EndOfString(s, i + 1)
    IN  IF j = 0 THEN JsonError
        ELSE [ok |-> TRUE, v |-> [t |-> "str", v |-> SubSeq(s, i + 1, j - 1)],
              i |-> j + 1]

RECURSIVE ToNumber(_)
ToNumber(digits) ==
    IF digits = <<>> THEN 0
    ELSE 10 * ToNumber(SubSeq(digits, 1, Len(digits) - 1))
         + (digits[Len(digits)] - 48)

\* a canonical array index: these keys are enumerated first, ascending
IsArrayIndex(key) ==
    /\ Len(key) > 0
    /\ Len(key) <= 9
    /\ \A n \in 1..Len(key) : IsDigit(key[n])
    /\ key[1] # 48 \/ Len(key) = 1

RECURSIVE IndexKeysAscending(_, _)
IndexKeysAscending(entries, S) ==
    IF S = {} THEN <<>>
    ELSE LET n == CHOOSE x \in S : \A y \in S :
                      ToNumber(entries[x].key) <= ToNumber(entries[y].key)
         IN  <<n>> \o IndexKeysAscending(entries, S \ {n})

RECURSIVE Ascending(_)
Ascending(S) == IF S = {} THEN <<>> ELSE <<Min(S)>> \o Ascending(S \ {Min(S)})

\* the properties of the object built from the members in text order: a
\* repeated key keeps its first place and takes its last value; array-index
\* keys come first
OwnProperties(entries) ==
    LET firsts == {n \in 1..Len(entries) :
                      \A m \in 1..(n - 1) : entries[m].key # entries[n].key}
        indexed == {n \in firsts : IsArrayIndex(entries[n].key)}
        order == IndexKeysAscending(entries, indexed) \o Ascending(firsts \ indexed)
        lastOf(key) == CHOOSE n \in 1..Len(entries) :
                          /\ entries[n].key = key
                          /\ \A m \in (n + 1)..Len(entries) : entries[m].key # key
    IN  [p \in 1..Len(order) |->
            [key |-> entries[order[p]].key,
             value |-> entries[lastOf(entries[order[p]].key)].value]]

RECURSIVE ParseValue(_, _)
RECURSIVE ParseElements(_, _, _)
RECURSIVE ParseMembers(_, _, _)

\* the elements of an array from i on, up to the closing bracket
ParseElements(s, i, acc) ==
    LET element == ParseValue(s, i)
    IN  IF ~element.ok THEN JsonError
        ELSE LET j == SkipWhitespace(s, element.i)
                 items == Append(acc, element.v)
             IN  IF CharAt(s, j) = 44
                 THEN ParseElements(s, SkipWhitespace(s, j + 1), items)
                 ELSE IF CharAt(s, j) = 93
                 THEN [ok |-> TRUE, v |-> [t |-> "arr", v |-> items], i |-> j + 1]
                 ELSE JsonError

\* the members of an object from i on, up to the closing brace
ParseMembers(s, i, acc) ==
    IF CharAt(s, i) # 34 THEN JsonError
    ELSE LET key == ParseString(s, i)
         IN  IF ~key.ok THEN JsonError
             ELSE LET j == SkipWhitespace(s, key.i)
                  IN  IF CharAt(s, j) # 58 THEN JsonError
                      ELSE LET member == ParseValue(s, SkipWhitespace(s, j + 1))
                           IN  IF ~member.ok THEN JsonError
                               ELSE LET k == SkipWhitespace(s, member.i)
                                        entries == Append(acc, [key |-> key.v.v,
                                                                value |-> member.v])
                                    IN  IF CharAt(s, k) = 44
                                        THEN ParseMembers(s, SkipWhitespace(s, k + 1),
                                                          entries)
                                        ELSE IF CharAt(s, k) = 125
                                        THEN [ok |-> TRUE,
                                              v |-> [t |-> "obj",
                                                     v |-> OwnProperties(entries)],
                                              i |-> k + 1]
                                        ELSE JsonError

ParseValue(s, i) ==
    LET c == CharAt(s, i)
        j == SkipWhitespace(s, i + 1)
    IN  IF c = 34 THEN ParseString(s, i)
        ELSE IF IsDigit(c) THEN ParseNumber(s, i)
        ELSE IF c = 91
        THEN IF CharAt(s, j) = 93
             THEN [ok |-> TRUE, v |-> [t |-> "arr", v |-> <<>>], i |-> j + 1]
             ELSE ParseElements(s, j, <<>>)
        ELSE IF c = 123
        THEN IF CharAt(s, j) = 125
             THEN [ok |-> TRUE, v |-> [t |-> "obj", v |-> <<>>], i |-> j + 1]
             ELSE ParseMembers(s, j, <<>>)
        ELSE JsonError

\* JSON.parse: one value, with nothing but whitespace around it
JSONparse(text) ==
    LET r == ParseValue(text, SkipWhitespace(text, 1))
    IN  IF ~r.ok THEN JsonError
        ELSE IF SkipWhitespace(text, r.i) = Len(text) + 1
        THEN [ok |-> TRUE, v |-> r.v]
        ELSE JsonError

Spaces(n) == [i \in 1..n |-> 32]

Quote(chars) == <<34>> \o chars \o <<34>>

RECURSIVE JSONstringify(_, _)
RECURSIVE StringifyItems(_, _)
RECURSIVE StringifyProperties(_, _)

StringifyItems(items, indent) ==
    Spaces(indent) \o JSONstringify(Head(items), indent)
    \o (IF Len(items) = 1 THEN <<>>
        ELSE <<44, 10>> \o StringifyItems(Tail(items), indent))

StringifyProperties(props, indent) ==
    Spaces(indent) \o Quote(Head(props).key) \o <<58, 32>>
    \o JSONstringify(Head(props).value, indent)
    \o (IF Len(props) = 1 THEN <<>>
        ELSE <<44, 10>> \o StringifyProperties(Tail(props), indent))

\* JSON.stringify(value, null, 2) at the given depth of indentation
JSONstringify(value, indent) ==
    IF value.t = "num" THEN value.v
    ELSE IF value.t = "str" THEN Quote(value.v)
    ELSE IF value.t = "arr"
    THEN IF Len(value.v) = 0 THEN <<91, 93>>
         ELSE <<91, 10>> \o StringifyItems(value.v, indent + 2)
              \o <<10>> \o Spaces(indent) \o <<93>>
    ELSE IF Len(value.v) = 0 THEN <<123, 125>>
         ELSE <<123, 10>> \o StringifyProperties(value.v, indent + 2)
              \o <<10>> \o Spaces(indent) \o <<125>>

(***************************************************************************)
(* The image directory.  fs is [dirExists, writable, files]: whether the   *)
(* directory exists, whether mkdirSync and writeFileSync succeed, and the  *)
(* files in it as [path, data] records.  imageTempDir is taken to be an    *)
(* absolute POSIX path, so path.resolve and the two replace calls of lines *)
(* 506-511 leave the joined path as it is.                                 *)
(***************************************************************************)
imageTempDir == <<47, 99>>    \* '/c'

existsSync(fs, filePath) == \E f \in fs.files : f.path = filePath

writeFileSync(fs, filePath, data) ==
    [fs EXCEPT !.files = {f \in @ : f.path # filePath}
                         \cup {[path |-> filePath, data |-> data]}]

\* lines 558-568: the table of MIME types and file extensions
extensions ==
    {
      \* 'image/jpeg': '.jpg'
      <<<<105, 109, 97, 103, 101, 47, 106, 112, 101, 103>>,
        <<46, 106, 112, 103>>>>,
      \* 'image/jpg': '.jpg'
      <<<<105, 109, 97, 103, 101, 47, 106, 112, 103>>,
        <<46, 106, 112, 103>>>>,
      \* 'image/png': '.png'
      <<<<105, 109, 97, 103, 101, 47, 112, 110, 103>>,
        <<46, 112, 110, 103>>>>,
      \* 'image/gif': '.gif'
      <<<<105, 109, 97, 103, 101, 47, 103, 105, 102>>,
        <<46, 103, 105, 102>>>>,
      \* 'image/webp': '.webp'
      <<<<105, 109, 97, 103, 101, 47, 119, 101, 98, 112>>,
        <<46, 119, 101, 98, 112>>>>,
      \* 'image/svg+xml': '.svg'
      <<<<105, 109, 97, 103, 101, 47, 115, 118, 103, 43, 120, 109, 108>>,
        <<46, 115, 118, 103>>>>,
      \* 'image/bmp': '.bmp'
      <<<<105, 109, 97, 103, 101, 47, 98, 109, 112>>,
        <<46, 98, 109, 112>>>>,
      \* 'image/tiff': '.tiff'
      <<<<105, 109, 97, 103, 101, 47, 116, 105, 102, 102>>,
        <<46, 116, 105, 102, 102>>>>,
      \* 'image/x-icon': '.ico'
      <<<<105, 109, 97, 103, 101, 47, 120, 45, 105, 99, 111, 110>>,
        <<46, 105, 99, 111>>>> }

\* lines 557-571: the extension of the table, or '.bin'
getFileExtensionFromMimeType(mimeType) ==
    IF \E e \in extensions : e[1] = mimeType
    THEN (CHOOSE e \in extensions : e[1] = mimeType)[2]
    ELSE <<46, 98, 105, 110>>

\* a txid and a number as they appear in a template string
TxidString(txid) == IF txid = "a" THEN <<97>> ELSE <<98>>

RECURSIVE DecimalString(_)
DecimalString(n) ==
    IF n < 10 THEN <<48 + n>> ELSE DecimalString(n \div 10) \o <<48 + (n % 10)>>

\* lines 492-494
ImageFilePath(contentType, txid, index) ==
    imageTempDir \o <<47>> \o TxidString(txid) \o <<95>> \o DecimalString(index)
    \o getFileExtensionFromMimeType(contentType)

\* a variant that leaves the content type out of the data URI
DataUriWithoutType(contentType, contentBuffer) ==
    Str_data_colon \o Str_base64_comma \o toStringBase64(contentBuffer)

\* lines 522-523 and 539-540
DataUri(contentType, contentBuffer) ==
    Str_data_colon \o contentType \o Str_base64_comma \o toStringBase64(contentBuffer)

\* a variant that fails when the file is there already
FormatImageFileExclusive(contentType, contentBuffer, txid, index, fs) ==
    IF ~fs.writable \/ existsSync(fs, ImageFilePath(contentType, txid, index))
    THEN [result |-> Null, fs |-> fs]
    ELSE [result |-> [str |-> ImageFilePath(contentType, txid, index)],
          fs |-> writeFileSync([fs EXCEPT !.dirExists = TRUE],
                               ImageFilePath(contentType, txid, index),
                               contentBuffer)]

\* lines 480-519: the result is [str |-> the path], or Null when mkdirSync
\* or writeFileSync raised and the outer catch (542-548) returned null
FormatImageFile(contentType, contentBuffer, txid, index, fs) ==
    IF ~fs.dirExists /\ ~fs.writable THEN [result |-> Null, fs |-> fs]
    ELSE LET made == [fs EXCEPT !.dirExists = TRUE]
             filePath == ImageFilePath(contentType, txid, index)
         IN  IF existsSync(made, filePath)
             THEN [result |-> [str |-> filePath], fs |-> made]
             ELSE IF ~fs.writable THEN [result |-> Null, fs |-> made]
             ELSE [result |-> [str |-> filePath],
                   fs |-> writeFileSync(made, filePath, contentBuffer)]

\* a variant of the JSON branch without the fallback
FormatJsonNoFallback(contentBuffer) ==
    LET jsonString == toStringUtf8(contentBuffer)
        jsonData == JSONparse(jsonString)
    IN  IF jsonData.ok THEN [str |-> JSONstringify(jsonData.v, 0)] ELSE Null

\* lines 526-535
FormatJson(contentBuffer) ==
    LET jsonString == toStringUtf8(contentBuffer)
        jsonData == JSONparse(jsonString)
    IN  IF jsonData.ok THEN [str |-> JSONstringify(jsonData.v, 0)]
        ELSE [str |-> jsonString]

\* formatInscriptionContent, lines 470-549: the string returned ([str |-> s])
\* or Null, and the image directory afterwards
formatInscriptionContent(contentType, contentBuffer, formatImageOption, txid, index, fs) ==
    IF startsWith(contentType, Str_image_slash)
    THEN IF formatImageOption = "file" /\ txid # ""
         THEN FormatImageFile(contentType, contentBuffer, txid, index, fs)
         ELSE [result |-> [str |-> DataUri(contentType, contentBuffer)], fs |-> fs]
    ELSE IF contentType = Str_application_json
    THEN [result |-> FormatJson(contentBuffer), fs |-> fs]
    ELSE IF startsWith(contentType, Str_text_slash)
    THEN [result |-> [str |-> toStringUtf8(contentBuffer)], fs |-> fs]
    ELSE [result |-> [str |-> DataUri(contentType, contentBuffer)], fs |-> fs]

\* decodeWitness, lines 422-446: the strings of the ordinals from index on
\* that format to a non-empty string, and the image directory afterwards
RECURSIVE FormatAll(_, _, _, _, _)
FormatAll(extractedOrdinals, formatImageOption, txid, index, fs) ==
    IF index >= Len(extractedOrdinals) THEN [strs |-> <<>>, fs |-> fs]
    ELSE LET ordinal == At(extractedOrdinals, index)
             formattedContent ==
                 formatInscriptionContent(ordinal.contentType, ordinal.content,
                                          formatImageOption, txid, index, fs)
             rest == FormatAll(extractedOrdinals, formatImageOption, txid,
                               index + 1, formattedContent.fs)
         IN  [strs |-> IF /\ formattedContent.result # Null
                          /\ formattedContent.result.str # <<>>
                       THEN <<formattedContent.result.str>> \o rest.strs
                       ELSE rest.strs,
              fs |-> rest.fs]

(***************************************************************************)
(* OrdinalsClient.getTransaction and decodeWitness as asynchronous calls.  *)
(* A call runs from one await to the next in one step.  Between            *)
(* `await fetch`, `await res.text()` and `await res.json()` the call       *)
(* touches no shared state, so the three are one step, FetchResponds.      *)
(* Every caller in the repository passes includeRaw = false (or leaves the *)
(* default), so lines 325-331 are skipped and rawHex stays undefined.      *)
(***************************************************************************)
Callers == {"c1", "c2"}
MaxNow == MaxPeriods * ttlMs + MaxJitter

IdleCall == [pc |-> "idle"]

\* a finished call.  via: "cache" for a value read from the cache, else
\* the kind of answer the transaction source gave; age: the age of the
\* cache entry the value was read from, -1 when it was not read from one
Done(call, outcome, value, via, age) ==
    [pc |-> "done", op |-> call.op, txid |-> call.txid, found |-> call.found,
     outcome |-> outcome, value |-> value, via |-> via, age |-> age]

Found(m, key, t) ==
    IF m[key] = Null THEN "absent"
    ELSE IF t - m[key].timestamp > ttlMs THEN "expired" ELSE "live"

AgeOf(m, key, t) == t - m[key].timestamp

\* the object getTransaction stores, lines 337-341
TransactionCacheOf(txParsed) ==
    LET extractedOrdinals == extractAllOrdinals(txParsed)
    IN  [basicTransaction |-> buildTransactionWithOrdinal(txParsed, extractedOrdinals),
         extractedOrdinals |-> extractedOrdinals,
         rawHex |-> Null]

ClientStart ==
    /\ now = 0
    /\ cache = [key \in Txids |-> Null]
    /\ requestCache = {}
    /\ calls = [c \in Callers |-> IdleCall]
    /\ fetchCount = 0

\* lines 306-311: register the txid and send the request
SendRequest(c, call) ==
    /\ fetchCount < MaxFetches
    /\ requestCache' = requestCache \cup {call.txid}
    /\ fetchCount' = fetchCount + 1
    /\ calls' = [calls EXCEPT ![c] = [pc |-> "fetch"] @@ call]

\* getTransaction, lines 297-311: the cache check, and on a miss the
\* registration and the request
GetTransaction(c, txid) ==
    /\ calls[c].pc = "idle"
    /\ LET got == SimpleCacheGet(cache, txid, now)
           call == [op |-> "getTransaction", txid |-> txid,
                    found |-> Found(cache, txid, now),
                    formatImageOption |-> "base64"]
       IN  /\ cache' = got.cache
           /\ IF got.value # Null
              THEN /\ calls' = [calls EXCEPT ![c] =
                          Done(call, "ok", got.value.basicTransaction, "cache",
                               AgeOf(cache, txid, now))]
                   /\ UNCHANGED <<requestCache, fetchCount>>
              ELSE SendRequest(c, call)
    /\ UNCHANGED <<now, files, ioVars>>

\* decodeWitness, lines 398-411: the cache check; on a miss the call to
\* getTransaction(txid, false), which runs up to its fetch in the same step
DecodeWitness(c, txid, formatImageOption) ==
    /\ calls[c].pc = "idle"
    /\ LET got == SimpleCacheGet(cache, txid, now)
           call == [op |-> "decodeWitness", txid |-> txid,
                    found |-> Found(cache, txid, now),
                    formatImageOption |-> formatImageOption]
           inner == SimpleCacheGet(got.cache, txid, now)
           decodedData == FormatAll(got.value.extractedOrdinals, formatImageOption,
                                    txid, 0, files)
       IN  IF got.value # Null
           THEN /\ cache' = got.cache
                /\ calls' = [calls EXCEPT ![c] =
                       Done(call, "ok", decodedData.strs,
                            "cache", AgeOf(cache, txid, now))]
                /\ files' = decodedData.fs
                /\ UNCHANGED <<requestCache, fetchCount>>
           ELSE /\ inner.value = Null
                /\ cache' = inner.cache
                /\ SendRequest(c, call)
                /\ UNCHANGED files
    /\ UNCHANGED <<now, ioVars>>

CommitStaleSummary(c, txParsed) ==
    LET call == calls[c]
        fresh == TransactionCacheOf(txParsed)
        old == cache[call.txid]
        stored == IF old = Null THEN fresh
                  ELSE [fresh EXCEPT !.basicTransaction = old.data.basicTransaction]
    IN  /\ cache' = SimpleCacheSet(cache, call.txid, stored, now)
        /\ requestCache' = requestCache \ {call.txid}
        /\ calls' = [calls EXCEPT ![c] =
               IF call.op = "getTransaction"
               THEN Done(call, "ok", fresh.basicTransaction, "ok", -1)
               ELSE [call EXCEPT !.pc = "resume"]]

\* lines 318-347 on a good answer: scan, build the summary, store the
\* entry, release the txid, return the summary
Commit(c, txParsed) ==
    LET call == calls[c]
        stored == TransactionCacheOf(txParsed)
    IN  /\ cache' = SimpleCacheSet(cache, call.txid, stored, now)
        /\ requestCache' = requestCache \ {call.txid}
        /\ calls' = [calls EXCEPT ![c] =
               IF call.op = "getTransaction"
               THEN Done(call, "ok", stored.basicTransaction, "ok", -1)
               ELSE [call EXCEPT !.pc = "resume"]]

\* variants of Fail with a slip in the finally block or in the error path
FailKeepsRegistration(c, kind) ==
    /\ UNCHANGED <<cache, requestCache>>
    /\ calls' = [calls EXCEPT ![c] = Done(calls[c], "error", Null, kind, -1)]

FailCachesNothingFound(c, kind) ==
    /\ requestCache' = requestCache \ {calls[c].txid}
    /\ calls' = [calls EXCEPT ![c] = Done(calls[c], "error", Null, kind, -1)]
    /\ cache' = SimpleCacheSet(cache, calls[c].txid, Null, now)

\* lines 312-316 and 344-358: the finally block and the rethrow, on a
\* failed fetch, a non-OK status, an unparsable body, or a body
\* extractAllOrdinals throws on; decodeWitness rethrows it in turn (447-456)
Fail(c, kind) ==
    /\ requestCache' = requestCache \ {calls[c].txid}
    /\ calls' = [calls EXCEPT ![c] = Done(calls[c], "error", Null, kind, -1)]
    /\ UNCHANGED cache

\* lines 311-347: the answer of the transaction source arrives
FetchResponds(c, outcome) ==
    /\ calls[c].pc = "fetch"
    /\ outcome \in FetchOutcomes(calls[c].txid)
    /\ IF outcome.kind # "ok" THEN Fail(c, outcome.kind) ELSE Commit(c, outcome.tx)
    /\ UNCHANGED <<now, fetchCount, files, ioVars>>

\* decodeWitness, lines 413-446, after getTransaction has returned
DecodeWitnessResume(c) ==
    /\ calls[c].pc = "resume"
    /\ LET got == SimpleCacheGet(cache, calls[c].txid, now)
           extractedOrdinals ==
               IF got.value # Null THEN got.value.extractedOrdinals ELSE <<>>
           decodedData == FormatAll(extractedOrdinals, calls[c].formatImageOption,
                                    calls[c].txid, 0, files)
       IN  /\ cache' = got.cache
           /\ calls' = [calls EXCEPT ![c] =
                  Done(calls[c], "ok", decodedData.strs,
                       IF got.value # Null THEN "cache" ELSE "nothing",
                       IF got.value # Null THEN AgeOf(cache, calls[c].txid, now) ELSE -1)]
           /\ files' = decodedData.fs
    /\ UNCHANGED <<now, requestCache, fetchCount, ioVars>>

\* the caller takes the result or the error; it may call again
Return(c) ==
    /\ calls[c].pc = "done"
    /\ calls' = [calls EXCEPT ![c] = IdleCall]
    /\ UNCHANGED <<now, cache, requestCache, fetchCount, files, ioVars>>

\* time passes: one millisecond, or a whole TTL
Tick(d) ==
    /\ now + d <= MaxNow
    /\ (now + d) % ttlMs <= MaxJitter
    /\ now' = now + d
    /\ UNCHANGED <<cache, requestCache, calls, fetchCount, files, ioVars>>

(***************************************************************************)
(* The other public operations of SimpleCache, called directly.  The       *)
(* client never calls them on transactionCache; they are part of SpecAll   *)
(* only.                                                                   *)
(***************************************************************************)
CacheGet(c, key) ==
    /\ calls[c].pc = "idle"
    /\ LET got == SimpleCacheGet(cache, key, now)
           call == [op |-> "get", txid |-> key, found |-> Found(cache, key, now)]
       IN  /\ cache' = got.cache
           /\ calls' = [calls EXCEPT ![c] =
                  Done(call, "ok", got.value,
                       IF got.value # Null THEN "cache" ELSE "nothing",
                       IF got.value # Null THEN AgeOf(cache, key, now) ELSE -1)]
    /\ UNCHANGED <<now, requestCache, fetchCount, files, ioVars>>

CacheSet(key, txParsed) ==
    /\ cache' = SimpleCacheSet(cache, key, TransactionCacheOf(txParsed), now)
    /\ UNCHANGED <<now, requestCache, calls, fetchCount, files, ioVars>>

CacheDelete(key) ==
    /\ cache' = SimpleCacheDelete(cache, key)
    /\ UNCHANGED <<now, requestCache, calls, fetchCount, files, ioVars>>

CacheClear ==
    /\ cache' = SimpleCacheClear(cache)
    /\ UNCHANGED <<now, requestCache, calls, fetchCount, files, ioVars>>

CachePurgeExpired ==
    /\ cache' = SimpleCachePurgeExpired(cache, now)
    /\ UNCHANGED <<now, requestCache, calls, fetchCount, files, ioVars>>

(***************************************************************************)
(* The show_ordinals tool: handleDecodeWitness with processAndSaveImage    *)
(* and markSuccessfulDecoding.  One call runs to completion in one step:   *)
(* its two awaits, decodeWitness and getTransaction, are taken with no     *)
(* other call and no clock step between them, so the getTransaction of     *)
(* line 591 finds the entry decodeWitness has just read or stored.  The    *)
(* response is a record in place of the text template.  The strings handed *)
(* to processAndSaveImage are those the formatter makes of the modelled    *)
(* envelopes; none begins with 'file://' or 'data:image/', so its first    *)
(* two branches (lines 385-446) and the data URI of its catch clause       *)
(* (lines 519-553) are not modelled.                                       *)
(***************************************************************************)
\* Buffer.from(data, 'hex') on the digit pairs toStringHex produces
RECURSIVE fromHex(_)
fromHex(digits) ==
    IF Len(digits) < 2 THEN <<>>
    ELSE <<digits[1] * 16 + digits[2]>> \o fromHex(SubSeq(digits, 3, Len(digits)))

\* DecodeWitnessSchema: a txid of 64 characters, an optional option
ValidArgs(args) ==
    args.txid \in Txids /\ args.formatImageOption \in {"base64", "file", "omitted"}

\* client.decodeWitness(txid, option) run to completion at time t, outcome
\* being the answer of the transaction source if one is asked for
DecodeWitnessSync(m, txid, option, outcome, t, fs) ==
    LET got == SimpleCacheGet(m, txid, t)
        Formatted(decodedData, after) ==
            [threw |-> FALSE, strs |-> decodedData.strs, cache |-> after,
             fs |-> decodedData.fs]
        Stored(newCached) ==
            Formatted(FormatAll(newCached.extractedOrdinals, option, txid, 0, fs),
                      SimpleCacheSet(got.cache, txid, newCached, t))
    IN  IF got.value # Null
        THEN Formatted(FormatAll(got.value.extractedOrdinals, option, txid, 0, fs),
                       got.cache)
        ELSE IF outcome.kind # "ok"
        THEN [threw |-> TRUE, strs |-> <<>>, cache |-> got.cache, fs |-> fs]
        ELSE Stored(TransactionCacheOf(outcome.tx))

\* lines 583-586: what the handler takes for an image
IsImageResult(content) ==
    \/ startsWith(content, Str_data_colon \o Str_image_slash)
    \/ Len(content) > 0 /\ content[1] # 123 /\ content[1] # 91

\* lines 604-612: a string that begins with { or [ and parses is fenced as
\* json
FenceJson(content) ==
    LET jsonData == JSONparse(content)
    IN  IF Len(content) > 0 /\ content[1] \in {123, 91} /\ jsonData.ok
        THEN <<96, 96, 96, 106, 115, 111, 110, 10>> \o JSONstringify(jsonData.v, 0)
             \o <<10, 96, 96, 96>>
        ELSE content

\* lines 603-613: map and join('\n\n')
RECURSIVE JoinFenced(_)
JoinFenced(contents) ==
    IF contents = <<>> THEN <<>>
    ELSE IF Len(contents) = 1 THEN FenceJson(contents[1])
    ELSE FenceJson(contents[1]) \o <<10, 10>> \o JoinFenced(Tail(contents))

\* processAndSaveImage, lines 370-558, for imageData that is neither a
\* file:// URI nor a data:image/ URI: the image of the summary is written
\* to `${txid}${extension}` (lines 448-463), or the call raises (line 465,
\* or mkdirSync or writeFileSync).  getMimeExtension (lines 348-362) holds
\* the table of getFileExtensionFromMimeType
processAndSaveImage(imageData, txid, txInfo, fs) ==
    LET Written(mimeType, contentBuffer, filePath) ==
            [threw |-> FALSE,
             fs |-> writeFileSync([fs EXCEPT !.dirExists = TRUE],
                                  filePath, contentBuffer),
             response |-> [kind |-> "image", mimeType |-> mimeType,
                           imgSrc |-> filePath, bytes |-> Len(contentBuffer)]]
    IN  IF /\ txInfo.ordinal # Null
           /\ startsWith(txInfo.ordinal.content.type, Str_image_slash)
           /\ fs.writable
        THEN Written(txInfo.ordinal.content.type,
                     fromHex(txInfo.ordinal.content.data),
                     imageTempDir \o <<47>> \o TxidString(txid) \o
                     getFileExtensionFromMimeType(txInfo.ordinal.content.type))
        ELSE [threw |-> TRUE, fs |-> fs]

recentMs == 5 * 60 * 1000

\* markSuccessfulDecoding, lines 701-711
markSuccessfulDecoding(marks, txid, t) ==
    [key \in DOMAIN marks |->
        LET timestamp == IF key = txid THEN t ELSE marks[key]
        IN  IF timestamp < t - recentMs THEN -1 ELSE timestamp]

\* handleDecodeWitness, lines 565-639
HandleDecodeWitness(args, outcome) ==
    LET txid == args.txid
        \* line 599 and the catch clause of lines 623-638
        Processed(saved) ==
            /\ files' = saved.fs
            /\ toolResult' = IF saved.threw THEN [kind |-> "error"]
                             ELSE saved.response
        \* lines 589-622
        Decoded(decodedWitness, images) ==
            /\ cache' = decodedWitness.cache
            /\ IF decodedWitness.threw
               THEN /\ toolResult' = [kind |-> "error"]
                    /\ UNCHANGED <<files, successfulDecodings>>
               ELSE IF images # <<>>
               THEN /\ successfulDecodings' =
                           markSuccessfulDecoding(successfulDecodings, txid, now)
                    /\ Processed(processAndSaveImage(
                           images[1], txid,
                           SimpleCacheGet(decodedWitness.cache, txid, now)
                               .value.basicTransaction,
                           decodedWitness.fs))
               ELSE /\ toolResult' = [kind |-> "text",
                                      text |-> JoinFenced(decodedWitness.strs)]
                    /\ files' = decodedWitness.fs
                    /\ UNCHANGED successfulDecodings
        \* lines 583-586
        Filtered(decodedWitness) ==
            Decoded(decodedWitness, SelectSeq(decodedWitness.strs, IsImageResult))
    IN  /\ toolArgs' = args
        /\ IF ~ValidArgs(args)
           THEN /\ toolResult' = [kind |-> "McpError"]
                /\ UNCHANGED <<cache, files, fetchCount, successfulDecodings>>
           ELSE /\ IF SimpleCacheGet(cache, txid, now).value = Null
                   THEN fetchCount < MaxFetches /\ fetchCount' = fetchCount + 1
                   ELSE UNCHANGED fetchCount
                \* line 579: the option is "file" whatever the arguments say
                /\ Filtered(DecodeWitnessSync(cache, txid, "file", outcome,
                                              now, files))
        /\ UNCHANGED <<now, requestCache, calls, parserVars, scanVars, formatVars,
                       sseVars>>

(***************************************************************************)
(* OrdinalsSseServer, setupExpressRoutes (servers/sse.ts, lines 98-136).   *)
(* The GET /sse handler stores the new transport, awaits server.connect    *)
(* and then registers the close listener of the request; a request that    *)
(* closes while the handler awaits finds no listener.  server.connect is   *)
(* taken to succeed.                                                       *)
(***************************************************************************)
SseClients == {"A", "B", "C"}

\* line 47: no transport, no connection, no POST yet
SseStart ==
    /\ transport = "undefined"
    /\ connections = [c \in SseClients |-> "closed"]
    /\ postResponse = "none"

\* lines 99-110: GET /sse up to the await
SseGet(c) ==
    /\ connections[c] = "closed"
    /\ transport' = c
    /\ connections' = [connections EXCEPT ![c] = "connecting"]
    /\ UNCHANGED postResponse
    /\ UNCHANGED <<clientVars, files, parserVars, scanVars, formatVars, toolVars>>

\* lines 110-118: server.connect has returned; the close listener is
\* registered
SseConnected(c) ==
    /\ connections[c] = "connecting"
    /\ connections' = [connections EXCEPT ![c] = "open"]
    /\ UNCHANGED <<transport, postResponse>>
    /\ UNCHANGED <<clientVars, files, parserVars, scanVars, formatVars, toolVars>>

\* the client disconnects; lines 115-118 run if the listener is registered
SseClose(c) ==
    /\ connections[c] # "closed"
    /\ connections' = [connections EXCEPT ![c] = "closed"]
    /\ transport' = IF connections[c] = "open" THEN "undefined" ELSE transport
    /\ UNCHANGED postResponse
    /\ UNCHANGED <<clientVars, files, parserVars, scanVars, formatVars, toolVars>>

\* lines 122-136: POST /messages
PostMessages ==
    /\ postResponse' = IF transport = "undefined" THEN "400" ELSE "handled"
    /\ UNCHANGED <<transport, connections>>
    /\ UNCHANGED <<clientVars, files, parserVars, scanVars, formatVars, toolVars>>

\* lines 85-97: the constructor has made the image directory
ImageDirStart == files = [dirExists |-> TRUE, writable |-> TRUE, files |-> {}]

NotYet == [pending |-> TRUE]

\* nothing formatted yet
FormatStart ==
    /\ formatArgs = [contentType |-> Str_text_plain, content |-> <<>>,
                     formatImageOption |-> "base64", txid |-> "a", index |-> 0]
    /\ formatted = NotYet

\* no tool call yet
ToolStart ==
    /\ toolArgs = [txid |-> "a", formatImageOption |-> "omitted"]
    /\ toolResult = NotYet
    /\ successfulDecodings = [key \in Txids |-> -1]

\* nothing scanned yet
ScanStart ==
    /\ scanInput = [txid |-> "a", confirmed |-> FALSE, vin |-> <<>>]
    /\ scanned = Null

ParserStart ==
    /\ decompiled = [ok |-> TRUE, chunks |-> <<>>]
    /\ parsed = FALSE
    /\ extracted = Null

Init ==
    /\ ParserStart
    /\ ClientStart
    /\ ScanStart
    /\ ImageDirStart
    /\ FormatStart
    /\ ToolStart
    /\ SseStart

\* the steps of the calls the callers in Cs make, and of the clock
ClientNext(Cs) ==
    \/ \E c \in Cs, txid \in Txids : GetTransaction(c, txid)
    \/ \E c \in Cs, txid \in Txids : DecodeWitness(c, txid, "base64")
    \/ \E c \in Cs, outcome \in UNION {FetchOutcomes(txid) : txid \in Txids} :
           FetchResponds(c, outcome)
    \/ \E c \in Cs : DecodeWitnessResume(c)
    \/ \E c \in Cs : Return(c)
    \/ \E d \in {1, ttlMs} : Tick(d)

Next == ClientNext(Callers)

Spec == Init /\ [][Next]_vars

\* one caller, with the SimpleCache operations interleaved at every await
NextAll ==
    \/ ClientNext({"c1"})
    \/ \E c \in {"c1"}, key \in Txids : CacheGet(c, key)
    \/ \E key \in Txids : \E txParsed \in BlockstreamTxs(key) : CacheSet(key, txParsed)
    \/ \E key \in Txids : CacheDelete(key)
    \/ CacheClear
    \/ CachePurgeExpired

SpecAll == Init /\ [][NextAll]_vars

(***************************************************************************)
(* Parser inputs.  decompile never yields an empty Buffer or a one-byte    *)
(* Buffer in 1..16 (it turns those into opcodes), so no such push is       *)
(* enumerated.                                                             *)
(***************************************************************************)
Alphabet ==
    { Op(OP_0), Op(OP_1), Op(OP_IF), Op(OP_ENDIF), Op(118),
      Push(Str_ord), Push(Str_text_plain), Push(Str_hello), Push(<<0>>) }

SeqsUpTo(S, n) == UNION {[1..m -> S] : m \in 0..n}

Prefixes ==
    { <<>>,
      EnvelopeHead,
      EnvelopeToBody,
      <<Op(OP_1), Op(OP_IF), Push(Str_ord)>>,
      <<Op(OP_IF)>> \o EnvelopeToBody,
      <<Op(OP_1), Op(OP_IF), Op(OP_ENDIF)>> \o EnvelopeToBody }

\* the parser's input: a prefix followed by up to MaxFree chunks, or a
\* script decompile rejects
ParserInit ==
    /\ decompiled \in
           {Undecodable, DecompileThrows} \cup
           {[ok |-> TRUE, chunks |-> p \o s] :
               p \in Prefixes, s \in SeqsUpTo(Alphabet, MaxFree)}
    /\ parsed = FALSE
    /\ extracted = Null
    /\ ClientStart
    /\ ScanStart
    /\ ImageDirStart
    /\ FormatStart
    /\ ToolStart
    /\ SseStart

\* a call on the script at hand; it may be called again
ExtractOrdinalContent ==
    /\ parsed' = TRUE
    /\ extracted' = extractOrdinalContent(decompiled)
    /\ UNCHANGED decompiled
    /\ UNCHANGED <<clientVars, scanVars, files, formatVars, toolVars, sseVars>>

ParserNext == ExtractOrdinalContent

ParserSpec == ParserInit /\ [][ParserNext]_vars

(***************************************************************************)
(* The parser called again and again on one script while a caller runs     *)
(* getTransaction and decodeWitness and time passes.                       *)
(***************************************************************************)
ReparseInit ==
    /\ decompiled \in {EnvelopeHello, EnvelopeTwoChunks, Signature, Undecodable,
                        DecompileThrows}
    /\ parsed = FALSE
    /\ extracted = Null
    /\ ClientStart
    /\ ScanStart
    /\ ImageDirStart
    /\ FormatStart
    /\ ToolStart
    /\ SseStart

ReparseNext ==
    \/ ExtractOrdinalContent
    \/ ClientNext({"c1"})

ReparseSpec == ReparseInit /\ [][ReparseNext]_vars

(***************************************************************************)
(* Scanner inputs: a transaction with no input, or with one input whose    *)
(* witness is any list of up to MaxWitness items, alone or followed by a   *)
(* second input.                                                           *)
(***************************************************************************)
WitnessItems == {EnvelopeHello, EnvelopeTwoChunks, Signature, Undecodable}

SecondInputs ==
    { <<>>,
      << [txid |-> "q", vout |-> 1, witness |-> <<>>] >>,
      << [txid |-> "q", vout |-> 1, witness |-> <<EnvelopeHello>>] >>,
      << [txid |-> "q", vout |-> 1, witness |-> <<Signature, EnvelopeTwoChunks>>] >> }

ScanInputs ==
    {[txid |-> "a", confirmed |-> TRUE, vin |-> <<>>]} \cup
    {[txid |-> "a", confirmed |-> TRUE,
      vin |-> <<[txid |-> "p", vout |-> 0, witness |-> w]>> \o second] :
        w \in SeqsUpTo(WitnessItems, MaxWitness), second \in SecondInputs}

ScanInit ==
    /\ scanInput \in ScanInputs
    /\ scanned = Null
    /\ ParserStart
    /\ ClientStart
    /\ ImageDirStart
    /\ FormatStart
    /\ ToolStart
    /\ SseStart

\* getTransaction, lines 321-341: scan the answer, build the summary
ScanAndBuild ==
    /\ scanned = Null
    /\ scanned' = TransactionCacheOf(scanInput)
    /\ UNCHANGED <<scanInput, parserVars, clientVars, files, formatVars, toolVars,
                   sseVars>>

ScanNext == ScanAndBuild

ScanSpec == ScanInit /\ [][ScanNext]_vars

(***************************************************************************)
(* Formatter inputs.  Payloads of application/json envelopes are a prefix  *)
(* followed by up to MaxJsonFree characters of JsonAlphabet; envelopes of  *)
(* every type are also formatted with a few payloads, both image options,  *)
(* and the image directory in each of its states.                          *)
(***************************************************************************)
\* 'IMAGE/PNG'
Str_IMAGE_PNG ==
    <<73, 77, 65, 71, 69, 47, 80, 78, 71>>
\* 'application/json;charset=utf-8'
Str_application_json_charset ==
    <<97, 112, 112, 108, 105, 99, 97, 116, 105, 111, 110, 47,
      106, 115, 111, 110, 59, 99, 104, 97, 114, 115, 101, 116,
      61, 117, 116, 102, 45, 56>>
\* 'application/pdf'
Str_application_pdf ==
    <<97, 112, 112, 108, 105, 99, 97, 116, 105, 111, 110, 47,
      112, 100, 102>>
\* 'text/html'
Str_text_html ==
    <<116, 101, 120, 116, 47, 104, 116, 109, 108>>
\* '{"a":1}'
Str_json_object ==
    <<123, 34, 97, 34, 58, 49, 125>>
\* '[1]'
Str_json_array ==
    <<91, 49, 93>>

ContentTypes ==
    { Str_image_png, Str_image_tiff, Str_IMAGE_PNG, Str_application_json,
      Str_application_json_charset, Str_text_plain, Str_text_html,
      Str_application_pdf }

\* the characters { } [ ] " : , 1 a and the space
JsonAlphabet == {123, 125, 91, 93, 34, 58, 44, 49, 97, 32}

JsonPrefixes ==
    { <<>>,
      <<91, 49, 44>>,
      <<123, 34, 97, 34, 58>>,
      <<123, 34, 50, 34, 58, 91, 93, 44, 34, 49, 34, 58>>,
      <<123, 34, 97, 34, 58, 49, 44, 34, 97, 34, 58>>,
      <<32, 123, 34, 97, 34, 58, 32, 91>> }

SmallPayloads == {<<>>, Str_hello, <<255, 0, 16>>, Str_json_object, Str_json_array}

FsStates ==
    {[dirExists |-> d, writable |-> w, files |-> {}] : d, w \in BOOLEAN} \cup
    {[dirExists |-> TRUE, writable |-> w,
      files |-> {[path |-> ImageFilePath(Str_image_png, "a", 0), data |-> <<1>>]}] :
        w \in BOOLEAN}

\* the formatter's input: a JSON type with a payload made of a prefix and
\* up to MaxJsonFree characters, or any type with a small payload
FormatInit ==
    /\ formatArgs \in
           {[contentType |-> ct, content |-> p \o t, formatImageOption |-> "base64",
             txid |-> "a", index |-> 0] :
               ct \in {Str_application_json, Str_application_json_charset},
               p \in JsonPrefixes, t \in SeqsUpTo(JsonAlphabet, MaxJsonFree)} \cup
           {[contentType |-> ct, content |-> payload, formatImageOption |-> option,
             txid |-> txid, index |-> index] :
               ct \in ContentTypes, payload \in SmallPayloads,
               option \in {"base64", "file"}, txid \in Txids, index \in {0, 1}}
    /\ formatted = NotYet
    /\ files \in IF formatArgs.content \in SmallPayloads
                 THEN FsStates
                 ELSE {[dirExists |-> TRUE, writable |-> TRUE, files |-> {}]}
    /\ ParserStart
    /\ ClientStart
    /\ ScanStart
    /\ ToolStart
    /\ SseStart

\* one call of formatInscriptionContent on the arguments
FormatInscriptionContent ==
    /\ LET r == formatInscriptionContent(formatArgs.contentType, formatArgs.content,
                                         formatArgs.formatImageOption, formatArgs.txid,
                                         formatArgs.index, files)
       IN  /\ formatted' = r.result
           /\ files' = r.fs
    /\ UNCHANGED <<formatArgs, parserVars, clientVars, scanVars, toolVars, sseVars>>

FormatNext == FormatInscriptionContent

FormatSpec == FormatInit /\ [][FormatNext]_vars

(***************************************************************************)
(* The show_ordinals tool called again and again on one transaction whose  *)
(* witness holds up to MaxToolItems items.                                 *)
(***************************************************************************)
MaxToolItems == 2

Envelope(contentType, payload) ==
    Item(EnvelopeHead \o <<Op(OP_1), Push(contentType), Op(OP_0),
                            Push(payload), Op(OP_ENDIF)>>)

ToolItems ==
    {Signature, EnvelopeHello,
     Envelope(Str_image_png, <<137, 80>>),
     Envelope(Str_text_plain, Str_json_object),
     Envelope(Str_application_json, Str_json_array),
     Envelope(Str_application_pdf, <<37>>),
     Envelope(Str_image_tiff, <<73, 73>>)}

ToolOutcomes(txid) ==
    {[kind |-> k] : k \in FailureKinds} \cup
    {[kind |-> "ok",
      tx |-> [txid |-> txid, confirmed |-> TRUE,
              vin |-> << [txid |-> "p", vout |-> 0, witness |-> witness] >>]] :
        witness \in UNION {[1..n -> ToolItems] : n \in 0..MaxToolItems}}

ToolInputs ==
    {[txid |-> txid, formatImageOption |-> option] :
        txid \in {"a", "bad"}, option \in {"base64", "file", "omitted"}}

ToolInit ==
    /\ files \in {[dirExists |-> TRUE, writable |-> w, files |-> {}] : w \in BOOLEAN}
    /\ ToolStart
    /\ SseStart
    /\ ParserStart
    /\ ClientStart
    /\ ScanStart
    /\ FormatStart

\* the transaction source answers only when it is asked: the arguments are
\* valid and the cache has no live entry
ToolNext ==
    \E args \in ToolInputs :
        \E outcome \in IF /\ ValidArgs(args)
                          /\ SimpleCacheGet(cache, args.txid, now).value = Null
                       THEN ToolOutcomes(args.txid)
                       ELSE {[kind |-> "networkError"]} :
            HandleDecodeWitness(args, outcome)

ToolSpec == ToolInit /\ [][ToolNext]_vars

(***************************************************************************)
(* The SSE server: clients connect and disconnect, and POST /messages.     *)
(***************************************************************************)
SseInit ==
    /\ SseStart
    /\ ParserStart
    /\ ClientStart
    /\ ScanStart
    /\ ImageDirStart
    /\ FormatStart
    /\ ToolStart

SseNext ==
    \/ \E c \in SseClients : SseGet(c)
    \/ \E c \in SseClients : SseConnected(c)
    \/ \E c \in SseClients : SseClose(c)
    \/ PostMessages

SseSpec == SseInit /\ [][SseNext]_vars

(***************************************************************************)
(* get_transaction after show_ordinals, with time passing between the      *)
(* calls.                                                                  *)
(***************************************************************************)
\* wasRecentlyDecoded, lines 714-716: successfulDecodings.has(txid)
wasRecentlyDecoded(marks, txid) == marks[txid] # -1

\* handleGetTransaction, lines 175-317, with client.getTransaction(txid)
\* run to completion; GetTransactionSchema takes a txid of 64 characters.
\* An error of the client is a BitcoinError, which handleError (lines
\* 645-664) turns into a text response
HandleGetTransaction(txid, outcome) ==
    LET got == SimpleCacheGet(cache, txid, now)
    IN  /\ IF txid \notin Txids
           THEN /\ toolResult' = [kind |-> "McpError"]
                /\ UNCHANGED <<cache, fetchCount>>
           ELSE IF wasRecentlyDecoded(successfulDecodings, txid)
           THEN /\ toolResult' = [kind |-> "blocked", txid |-> txid, at |-> now]
                /\ UNCHANGED <<cache, fetchCount>>
           ELSE IF got.value # Null
           THEN /\ toolResult' = [kind |-> "transaction", txid |-> txid]
                /\ cache' = got.cache
                /\ UNCHANGED fetchCount
           ELSE /\ fetchCount < MaxFetches
                /\ fetchCount' = fetchCount + 1
                /\ IF outcome.kind = "ok"
                   THEN /\ toolResult' = [kind |-> "transaction", txid |-> txid]
                        /\ cache' = SimpleCacheSet(got.cache, txid,
                                        TransactionCacheOf(outcome.tx), now)
                   ELSE /\ toolResult' = [kind |-> "bitcoinError"]
                        /\ cache' = got.cache
        /\ UNCHANGED <<now, requestCache, calls, files, toolArgs,
                       successfulDecodings, parserVars, scanVars, formatVars,
                       sseVars>>

\* show_ordinals and get_transaction on two transactions, and time passing;
\* the transaction source answers only when it is asked, with a failure or
\* with a transaction of one input that holds one png envelope or a
\* signature
RecentNext ==
    \/ \E txid \in Txids \cup {"bad"} :
           \E outcome \in IF /\ txid \in Txids
                             /\ SimpleCacheGet(cache, txid, now).value = Null
                          THEN {o \in ToolOutcomes(txid) :
                                   o.kind = "ok" =>
                                       o.tx.vin[1].witness \in
                                           {<<Signature>>,
                                            <<Envelope(Str_image_png, <<137, 80>>)>>}}
                          ELSE {[kind |-> "networkError"]} :
               HandleDecodeWitness(
                   [txid |-> txid, formatImageOption |-> "omitted"], outcome)
    \/ \E txid \in Txids \cup {"bad"} :
           \E outcome \in IF /\ txid \in Txids
                             /\ ~wasRecentlyDecoded(successfulDecodings, txid)
                             /\ SimpleCacheGet(cache, txid, now).value = Null
                          THEN {o \in ToolOutcomes(txid) :
                                   o.kind = "ok" =>
                                       o.tx.vin[1].witness \in
                                           {<<Signature>>,
                                            <<Envelope(Str_image_png, <<137, 80>>)>>}}
                          ELSE {[kind |-> "networkError"]} :
               HandleGetTransaction(txid, outcome)
    \/ \E d \in {1, ttlMs} : Tick(d)

RecentSpec == ToolInit /\ [][RecentNext]_vars

(***************************************************************************)
(* Claims about the cache layer, checked under Spec (two callers) or       *)
(* SpecAll (one caller and the SimpleCache operations).                    *)
(***************************************************************************)
InFlight(txid) == {c \in Callers : calls[c].pc = "fetch" /\ calls[c].txid = txid}

\* caller c begins a call for txid in this step
Begins(c, txid) ==
    calls[c].pc = "idle" /\ calls'[c].pc # "idle" /\ calls'[c].txid = txid

\* the fetch of caller c is answered in this step
Answered(c) == calls[c].pc = "fetch" /\ calls'[c].pc # "fetch"

\* ... with the transaction, or with a failure
AnsweredOk(c) ==
    /\ Answered(c)
    /\ \/ calls'[c].pc = "resume"
       \/ calls'[c].pc = "done" /\ calls'[c].via = "ok"

AnsweredFailed(c) ==
    Answered(c) /\ calls'[c].pc = "done" /\ calls'[c].via \in FailureKinds

Live(txid) == cache[txid] # Null /\ now - cache[txid].timestamp <= ttlMs

\* C1: callers that ask for the same uncached txid before any of them has
\* completed share one request: at no time are two requests for one txid
\* outstanding.
C1_SingleFlight == \A txid \in Txids : Cardinality(InFlight(txid)) <= 1

\* C2: a call that finds an unexpired entry returns the cached result in
\* the same step (the summary for getTransaction, the formatted cached
\* envelopes for decodeWitness), sends no request, registers nothing and
\* leaves the cache as it is.
C2_CacheHit ==
    [][\A c \in Callers, txid \in Txids :
          (Begins(c, txid) /\ Live(txid)) =>
              /\ calls'[c].pc = "done"
              /\ calls'[c].outcome = "ok"
              /\ calls'[c].value =
                    IF calls'[c].op = "getTransaction"
                    THEN cache[txid].data.basicTransaction
                    ELSE FormatAll(cache[txid].data.extractedOrdinals, "base64",
                                   txid, 0, files).strs
              /\ fetchCount' = fetchCount
              /\ requestCache' = requestCache
              /\ cache' = cache]_vars

C2_Witness ==
    \E c \in Callers :
        /\ calls[c].pc = "done"
        /\ calls[c].op = "decodeWitness"
        /\ calls[c].found = "live"
        /\ calls[c].age = ttlMs
        /\ calls[c].value # <<>>
        /\ fetchCount = 1

\* C3: a call that finds an entry older than the TTL removes it on that
\* access and sends a new request; the entry stored when the answer comes
\* is stamped with the time of the store.
C3_ExpiryRefetch ==
    [][\A c \in Callers, txid \in Txids :
          /\ (Begins(c, txid) /\ cache[txid] # Null
                  /\ now - cache[txid].timestamp > ttlMs) =>
                /\ cache'[txid] = Null
                /\ calls'[c].pc = "fetch"
                /\ fetchCount' = fetchCount + 1
          /\ (AnsweredOk(c) /\ calls[c].txid = txid) =>
                /\ cache'[txid] # Null
                /\ cache'[txid].timestamp = now]_vars

C3_Witness ==
    \E c \in Callers :
        /\ calls[c].pc = "done"
        /\ calls[c].found = "expired"
        /\ calls[c].via = "ok"
        /\ cache[calls[c].txid] # Null
        /\ cache[calls[c].txid].timestamp > ttlMs

\* C4: no value a read returns comes from an entry older than the TTL at
\* the time of the read, whatever set, get, delete, clear, purgeExpired
\* and clock steps came before, and also when purgeExpired never runs.
C4_NoStaleValue ==
    \A c \in Callers : calls[c].pc = "done" => calls[c].age <= ttlMs

C4_Witness ==
    /\ calls["c1"].pc = "done"
    /\ calls["c1"].op = "get"
    /\ calls["c1"].found = "expired"
    /\ calls["c1"].value = Null
    /\ cache[calls["c1"].txid] = Null
    /\ \E key \in Txids : cache[key] # Null /\ now - cache[key].timestamp > ttlMs

\* C5: a failed answer of the transaction source leaves the whole cache as
\* it was and ends the call with the error; a call that finds no unexpired
\* entry always sends a request, so the txid is fetched afresh.
C5_FailedFetch ==
    [][\A c \in Callers, txid \in Txids :
          /\ (AnsweredFailed(c) /\ calls[c].txid = txid) =>
                /\ cache' = cache
                /\ calls'[c].outcome = "error"
          /\ (Begins(c, txid) /\ ~Live(txid)) =>
                /\ calls'[c].pc = "fetch"
                /\ fetchCount' = fetchCount + 1]_vars

C5_Witness ==
    \E c, d \in Callers :
        /\ c # d
        /\ calls[c].pc = "done"
        /\ calls[c].outcome = "error"
        /\ calls[c].via = "notOk"
        /\ cache[calls[c].txid] = Null
        /\ calls[d].pc = "fetch"
        /\ calls[d].txid = calls[c].txid
        /\ fetchCount = 2

\* C6: every exit of a fetch releases the registration, so requestCache is
\* empty whenever no fetch is in progress.
C6_RegistrationReleased ==
    (\A c \in Callers : calls[c].pc # "fetch") => requestCache = {}

C6_Witness ==
    \E c, d \in Callers :
        /\ calls[c].pc = "done" /\ calls[c].via = "badShape"
        /\ calls[d].pc = "done" /\ calls[d].via = "ok"
        /\ requestCache = {}

\* C7: an entry changes only when a fetch is answered well; the new entry
\* is the summary and the envelope list of one answer of the source,
\* stamped with the time of the store, whatever entry was there before.
C7_WholesaleReplace ==
    [][\A txid \in Txids :
          (cache'[txid] # cache[txid] /\ cache'[txid] # Null) =>
              /\ \E c \in Callers : AnsweredOk(c) /\ calls[c].txid = txid
              /\ cache'[txid].timestamp = now
              /\ \E txParsed \in BlockstreamTxs(txid) :
                    /\ cache'[txid].data.extractedOrdinals = extractAllOrdinals(txParsed)
                    /\ cache'[txid].data.basicTransaction =
                          buildTransactionWithOrdinal(txParsed, extractAllOrdinals(txParsed))
                    /\ cache'[txid].data.rawHex = Null]_vars

C7_Witness ==
    \E c \in Callers :
        /\ calls[c].pc = "done"
        /\ calls[c].op = "getTransaction"
        /\ calls[c].via = "ok"
        /\ cache[calls[c].txid] # Null
        /\ cache[calls[c].txid].timestamp > 0
        /\ cache[calls[c].txid].data.basicTransaction # calls[c].value

\* C25: purgeExpired removes the entries whose age exceeds the TTL and no
\* other, leaves the entries it keeps as they are, and changes for no key
\* what get returns.
C25_PurgeFrame ==
    [][CachePurgeExpired =>
          \A key \in Txids :
              /\ cache'[key] =
                     IF cache[key] # Null /\ now - cache[key].timestamp > ttlMs
                     THEN Null ELSE cache[key]
              /\ SimpleCacheGet(cache', key, now).value =
                     SimpleCacheGet(cache, key, now).value]_vars

\* one entry is gone and the other, aged exactly the TTL, is there, at a
\* time when an entry stored at time 0 has expired
C25_Witness ==
    /\ now = ttlMs + 1
    /\ cache["a"] = Null
    /\ cache["b"] # Null
    /\ now - cache["b"].timestamp = ttlMs
    /\ fetchCount = 0
    /\ \A c \in Callers : calls[c].pc = "idle"

\* C26: a txid is in requestCache exactly while at least one getTransaction
\* fetch for it is in progress, also when several such calls overlap and
\* one of them has finished.
C26_RegisteredWhileInFlight ==
    \A txid \in Txids : txid \in requestCache <=> InFlight(txid) # {}

\* caller c finishes a decodeWitness call with a result in this step
Decodes(c) ==
    /\ calls[c].pc \in {"idle", "resume"}
    /\ calls'[c].pc = "done"
    /\ calls'[c].op = "decodeWitness"
    /\ calls'[c].outcome = "ok"

\* the envelopes the call reads from the cache in that step
EnvelopesRead(txid) == IF Live(txid) THEN cache[txid].data.extractedOrdinals ELSE <<>>

\* the strings of the envelopes whose formatting did not return null
FormattedOrNull(ords, txid) ==
    LET results == [n \in 1..Len(ords) |->
                       formatInscriptionContent(ords[n].contentType, ords[n].content,
                                                "base64", txid, n - 1, files).result]
        Succeeded(r) == r # Null
        kept == SelectSeq(results, Succeeded)
    IN  [n \in 1..Len(kept) |-> kept[n].str]

\* C22: decodeWitness returns one string per envelope in envelope order,
\* leaving out only the envelopes whose formatting returned null; an
\* envelope with an empty text payload has its entry, the empty string.
C22_OnePerEnvelope ==
    [][\A c \in Callers :
          Decodes(c) =>
              calls'[c].value =
                  FormattedOrNull(EnvelopesRead(calls'[c].txid), calls'[c].txid)]_vars

(***************************************************************************)
(* Claims about the parser, checked under ParserSpec.                      *)
(***************************************************************************)
HasMarker(d) ==
    \E i \in 1..(Len(d) - 1) : IsOpcode(d[i], OP_FALSE) /\ IsOpcode(d[i + 1], OP_IF)

\* the first index i with d[i] = OP_IF and d[i-1] = OP_FALSE, or -1
FirstMarker(d) ==
    findIndex({i \in Indices(d) :
                 i > 0 /\ IsOpcode(At(d, i), OP_IF) /\ IsOpcode(At(d, i - 1), OP_FALSE)})

\* C8: the envelope marker is the first index i with token[i] = OP_IF and
\* token[i-1] = OP_FALSE, so the result is the one parsed from that index,
\* also when an OP_IF without OP_FALSE before it comes earlier.
C8_MarkerIsFirstFalseIf ==
    (parsed /\ decompiled.ok) =>
        LET m == FirstMarker(decompiled.chunks)
        IN  extracted = IF m = -1 THEN Null
                        ELSE ExtractAfterMarker(decompiled.chunks, m)

\* C9: a token sequence with no OP_FALSE immediately followed by OP_IF
\* (the empty one and one starting with OP_IF included) parses to null.
C9_NoMarkerGivesNull ==
    (parsed /\ decompiled.ok /\ ~HasMarker(decompiled.chunks)) => extracted = Null

C9_Witness ==
    /\ parsed
    /\ decompiled.ok
    /\ ~HasMarker(decompiled.chunks)
    /\ Len(decompiled.chunks) >= 6
    /\ IsOpcode(decompiled.chunks[2], OP_IF)
    /\ decompiled.chunks[Len(decompiled.chunks)] = Op(OP_ENDIF)
    /\ extracted = Null

\* the tokens strictly between the body separator and the closing OP_ENDIF
PayloadRegion(d) ==
    LET ifIndex == IfIndexOf(d)
        endifIndex == EndifIndexOf(d, ifIndex)
        ordPushIndex == OrdPushIndexOf(d, ifIndex, endifIndex)
        contentTypeIndex == ContentTypeIndexOf(d, ordPushIndex, endifIndex)
        separatorIndex == SeparatorIndexOf(d, contentTypeIndex, endifIndex)
    IN  SubSeq(d, separatorIndex + 2, endifIndex)

RECURSIVE BytesOf(_)
BytesOf(pushes) ==
    IF pushes = <<>> THEN <<>>
    ELSE BytesOf(SubSeq(pushes, 1, Len(pushes) - 1)) \o pushes[Len(pushes)].v

\* C10: on success the content is exactly the in-order concatenation of the
\* data pushes strictly between the separator and the closing OP_ENDIF; a
\* token there that is no data push is skipped and does not fail the parse.
C10_PayloadExact ==
    (parsed /\ extracted # Null) =>
        extracted.content =
            BytesOf(SelectSeq(PayloadRegion(decompiled.chunks), isBuffer))

C10_Witness ==
    /\ parsed
    /\ extracted # Null
    /\ LET region == PayloadRegion(decompiled.chunks)
       IN  /\ Len(region) = 3
           /\ isBuffer(region[1]) /\ ~isBuffer(region[2]) /\ isBuffer(region[3])
           /\ region[1] # region[3]
           /\ extracted.content = region[1].v \o region[3].v

\* the first OP_ENDIF after index m, and the first push of 'ord' strictly
\* between m and e; -1 when there is none
ClosingAfter(d, m) ==
    findIndex({i \in Indices(d) : i > m /\ At(d, i) = Op(OP_ENDIF)})

TagBetween(d, m, e) ==
    findIndex({i \in Indices(d) : i > m /\ i < e /\ At(d, i) = Push(Str_ord)})

\* the index of the protocol tag of the envelope at the first marker, or -1
TagIndex(d) ==
    LET m == FirstMarker(d)
    IN  IF m = -1 THEN -1
        ELSE LET e == ClosingAfter(d, m)
             IN  IF e = -1 THEN -1 ELSE TagBetween(d, m, e)

\* with the tag at k: the push at k+2 after OP_1, otherwise the push at k+1;
\* -1 when that token is no data push
TaggedOrBareIndex(d, k) ==
    IF At(d, k + 1) = Op(OP_1)
    THEN IF isBuffer(At(d, k + 2)) THEN k + 2 ELSE -1
    ELSE IF isBuffer(At(d, k + 1)) THEN k + 1 ELSE -1

TaggedHello == EnvelopeToBody \o <<Push(Str_hello), Op(OP_ENDIF)>>
BareHello ==
    EnvelopeHead \o <<Push(Str_text_plain), Op(OP_0), Push(Str_hello), Op(OP_ENDIF)>>
TextPlainHello == [contentType |-> Str_text_plain, content |-> Str_hello]

\* C11: with the 'ord' tag at index k the content type is the data push at
\* k+2 when token k+1 is OP_1 and otherwise the data push at k+1; the parse
\* gives null when neither is a data push; the tagged and the bare 'hello'
\* envelope both parse to text/plain with payload 'hello'.
C11_ContentTypeForms ==
    (parsed /\ decompiled.ok) =>
        LET d == decompiled.chunks
            k == TagIndex(d)
        IN  /\ k # -1 =>
                 LET ct == TaggedOrBareIndex(d, k)
                 IN  /\ ct = -1 => extracted = Null
                     /\ extracted # Null =>
                            extracted.contentType = toStringUtf8(At(d, ct).v)
            /\ d \in {TaggedHello, BareHello} => extracted = TextPlainHello

C11_Witness ==
    /\ parsed
    /\ decompiled.ok
    /\ decompiled.chunks = BareHello
    /\ extracted = TextPlainHello

IsSeparator(token) == token = Op(OP_0) \/ token = Push(<<0>>)

SeparatorMissing ==
    EnvelopeHead \o <<Push(Str_text_plain), Push(Str_hello), Op(OP_0), Op(OP_ENDIF)>>

\* C12: the token right after the content-type push must be OP_0 or the
\* one-byte push of zero; with any other token there, the closing OP_ENDIF
\* included, the parse gives null; with the one-byte push of zero it goes on.
C12_SeparatorImmediate ==
    (parsed /\ decompiled.ok) =>
        LET d == decompiled.chunks
            k == TagIndex(d)
        IN  /\ (k # -1 /\ TaggedOrBareIndex(d, k) # -1) =>
                 (~IsSeparator(At(d, TaggedOrBareIndex(d, k) + 1)) => extracted = Null)
            /\ d = EnvelopeHead \o <<Push(Str_text_plain), Push(<<0>>),
                                     Push(Str_hello), Op(OP_ENDIF)>>
                 => extracted = TextPlainHello

C12_Witness ==
    /\ parsed
    /\ decompiled.ok
    /\ decompiled.chunks = SeparatorMissing
    /\ TaggedOrBareIndex(SeparatorMissing, TagIndex(SeparatorMissing)) = 3
    /\ extracted = Null

\* what the envelope with tag at k and closing OP_ENDIF at e holds
ResultInWindow(d, k, e) ==
    LET ct == TaggedOrBareIndex(d, k)
    IN  [contentType |-> toStringUtf8(At(d, ct).v),
         content |-> BytesOf(SelectSeq(SubSeq(d, ct + 3, e), isBuffer))]

\* C13: the window closes at the first OP_ENDIF after the marker's OP_IF and
\* the tag is the first push of 'ord' strictly inside it; without such an
\* OP_ENDIF or such a push the parse gives null, and a result is the one
\* read from that tag up to that OP_ENDIF.
C13_EnvelopeWindow ==
    (parsed /\ decompiled.ok) =>
        LET d == decompiled.chunks
            m == FirstMarker(d)
            e == ClosingAfter(d, m)
            k == TagBetween(d, m, e)
        IN  m # -1 =>
              /\ (e = -1 \/ k = -1) => extracted = Null
              /\ extracted # Null => extracted = ResultInWindow(d, k, e)

C13_Witness ==
    /\ parsed
    /\ decompiled.ok
    /\ LET d == decompiled.chunks
           m == FirstMarker(d)
           e == ClosingAfter(d, m)
       IN  /\ m # -1
           /\ e # -1
           /\ TagBetween(d, m, e) = -1
           /\ \E i \in Indices(d) : i > e /\ At(d, i) = Push(Str_ord)
    /\ extracted = Null

\* C14: whatever decompile does with the buffer, extractOrdinalContent ends
\* with null or with a record of a content type and a content; no exception
\* leaves it, and a buffer that does not decompile gives null.
C14_ParserTotal ==
    parsed =>
        /\ \/ extracted = Null
           \/ /\ DOMAIN extracted = {"contentType", "content"}
              /\ Len(extracted.contentType) > 0
              /\ Len(extracted.content) >= 0
        /\ ~decompiled.ok => extracted = Null

C14_Witness ==
    /\ parsed
    /\ decompiled = DecompileThrows
    /\ extracted = Null

ParseOfItem(tx, i, j) == extractOrdinalContent(At(At(tx.vin, i).witness, j))

\* the positions <<i, j>> of the witness items the parser succeeds on
SuccessfulItems(tx) ==
    UNION { { <<i, j>> : j \in { jj \in Indices(At(tx.vin, i).witness) :
                                    ParseOfItem(tx, i, jj) # Null } } :
            i \in Indices(tx.vin) }

PositionOf(ordinal) ==
    <<ordinal.sourceInfo.inputIndex, ordinal.sourceInfo.witnessIndex>>

Before(p, q) == p[1] < q[1] \/ (p[1] = q[1] /\ p[2] < q[2])

\* C15: the scan returns one entry per witness item the parser succeeds on
\* and no other, in input-major then witness-index order, each carrying the
\* parse of its item, its two indices and the outpoint of its input;
\* identical envelopes are all kept, and a transaction without inputs,
\* witness data or envelopes gives the empty list.
C15_ScanResult ==
    scanned # Null =>
        LET r == scanned.extractedOrdinals
            P == SuccessfulItems(scanInput)
        IN  /\ Len(r) = Cardinality(P)
            /\ \A n \in 1..Len(r) :
                  LET pos == PositionOf(r[n])
                  IN  /\ pos \in P
                      /\ r[n].contentType = ParseOfItem(scanInput, pos[1], pos[2]).contentType
                      /\ r[n].content = ParseOfItem(scanInput, pos[1], pos[2]).content
                      /\ r[n].sourceInfo.txid = At(scanInput.vin, pos[1]).txid
                      /\ r[n].sourceInfo.vout = At(scanInput.vin, pos[1]).vout
            /\ \A n \in 1..(Len(r) - 1) : Before(PositionOf(r[n]), PositionOf(r[n + 1]))

C15_Witness ==
    /\ scanned # Null
    /\ Len(scanInput.vin) = 2
    /\ scanInput.vin[1].witness = <<EnvelopeHello, Signature, EnvelopeHello>>
    /\ Len(scanned.extractedOrdinals) = 3
    /\ PositionOf(scanned.extractedOrdinals[1]) = <<0, 0>>
    /\ PositionOf(scanned.extractedOrdinals[2]) = <<0, 2>>
    /\ PositionOf(scanned.extractedOrdinals[3]) = <<1, 0>>
    /\ scanned.extractedOrdinals[1].content = scanned.extractedOrdinals[2].content

\* C16: in the summary built from a scan, ordinal is null exactly when the
\* envelope list of that scan is empty; otherwise it carries the content
\* type and the hex payload of the first envelope of the list.
C16_PrimaryInscription ==
    scanned # Null =>
        LET r == scanned.extractedOrdinals
            ordinal == scanned.basicTransaction.ordinal
        IN  /\ ordinal = Null <=> r = <<>>
            /\ r # <<>> =>
                  /\ ordinal.isOrdinal
                  /\ ordinal.content.type = r[1].contentType
                  /\ ordinal.content.data = toStringHex(r[1].content)

C16_Witness ==
    /\ scanned # Null
    /\ Len(scanned.extractedOrdinals) >= 2
    /\ scanned.extractedOrdinals[1].content # scanned.extractedOrdinals[2].content
    /\ scanned.basicTransaction.ordinal # Null
    /\ scanned.basicTransaction.ordinal.content.data =
           toStringHex(scanned.extractedOrdinals[1].content)
    /\ Len(scanned.basicTransaction.ordinal.content.data) =
           2 * Len(scanned.extractedOrdinals[1].content)

(***************************************************************************)
(* Claims about the formatter, checked under FormatSpec.                   *)
(***************************************************************************)
\* the branch a prefix match in the order image/, application/json, text/
\* selects
BranchByPrefix(contentType) ==
    IF startsWith(contentType, Str_image_slash) THEN "image"
    ELSE IF startsWith(contentType, Str_application_json) THEN "json"
    ELSE IF startsWith(contentType, Str_text_slash) THEN "text"
    ELSE "fallback"

\* C19: the branch is chosen by a case-sensitive prefix match in the order
\* image/, application/json, text/, fallback: a type that begins with
\* application/json gets the JSON rendering, a type that begins with text/
\* the UTF-8 text, any type without one of the three prefixes the data URI.
C19_BranchByPrefix ==
    formatted # NotYet =>
        LET branch == BranchByPrefix(formatArgs.contentType)
        IN  /\ branch = "json" => formatted = FormatJson(formatArgs.content)
            /\ branch = "text" => formatted = [str |-> toStringUtf8(formatArgs.content)]
            /\ branch = "fallback" =>
                  formatted = [str |-> DataUri(formatArgs.contentType, formatArgs.content)]

\* C20: for a payload of type application/json the result is the 2-space
\* re-serialization when the text parses as JSON and the text itself when
\* it does not; it is never null.
C20_JsonFallback ==
    (formatted # NotYet /\ formatArgs.contentType = Str_application_json) =>
        LET text == toStringUtf8(formatArgs.content)
            jsonData == JSONparse(text)
        IN  /\ formatted # Null
            /\ formatted.str = IF jsonData.ok THEN JSONstringify(jsonData.v, 0) ELSE text
            /\ formatArgs.content = Str_json_object =>
                  formatted.str = <<123, 10, 32, 32, 34, 97, 34, 58, 32, 49, 10, 125>>

C20_Witness ==
    /\ formatted # NotYet
    /\ formatArgs.contentType = Str_application_json
    /\ Len(formatArgs.content) > 6
    /\ formatArgs.content[1] = 123
    /\ ~JSONparse(toStringUtf8(formatArgs.content)).ok
    /\ formatted = [str |-> toStringUtf8(formatArgs.content)]

\* the call takes a data-URI branch: an image with the option 'base64', or
\* a type with none of the three prefixes
TakesDataUri ==
    \/ /\ startsWith(formatArgs.contentType, Str_image_slash)
       /\ formatArgs.formatImageOption = "base64"
    \/ BranchByPrefix(formatArgs.contentType) = "fallback"

\* C21: on a data-URI branch the result is 'data:' + the content type as
\* declared + ';base64,' + the base64 of the payload, and the call writes no
\* file.
C21_DataUri ==
    [][(formatted' # NotYet /\ TakesDataUri) =>
          /\ formatted' = [str |-> Str_data_colon \o formatArgs.contentType
                                    \o Str_base64_comma
                                    \o toStringBase64(formatArgs.content)]
          /\ files' = files]_vars

\* 'data:image/png;base64,/wAQ' and 'data:IMAGE/PNG;base64,aGVsbG8='
C21_Witness ==
    \/ /\ formatArgs.contentType = Str_image_png
       /\ formatArgs.content = <<255, 0, 16>>
       /\ formatArgs.formatImageOption = "base64"
       /\ formatted = [str |-> <<100, 97, 116, 97, 58, 105, 109, 97, 103, 101, 47, 112, 110, 103, 59, 98, 97, 115, 101, 54, 52, 44, 47, 119, 65, 81>>]
       /\ files.files = {}
    \/ /\ formatArgs.contentType = Str_IMAGE_PNG
       /\ formatArgs.content = Str_hello
       /\ formatArgs.formatImageOption = "file"
       /\ formatted = [str |-> <<100, 97, 116, 97, 58, 73, 77, 65, 71, 69, 47, 80, 78, 71, 59, 98, 97, 115, 101, 54, 52, 44, 97, 71, 86, 115, 98, 71, 56, 61>>]
       /\ files.files = {}

\* the call is about an image that goes to a file
SavesImage ==
    /\ startsWith(formatArgs.contentType, Str_image_slash)
    /\ formatArgs.formatImageOption = "file"

\* the path of that file: directory, txid, index and the extension of the
\* content type
SavedPath ==
    imageTempDir \o <<47>> \o TxidString(formatArgs.txid) \o <<95>>
    \o DecimalString(formatArgs.index)
    \o getFileExtensionFromMimeType(formatArgs.contentType)

\* C23: formatting an image with the option 'file' returns the path made of
\* the image directory, txid, index and content type whenever it returns a
\* string; when the file is there already the call returns that path and
\* writes nothing; a call writes at most that one file, and only when it
\* was not there.
C23_IdempotentSave ==
    [][SavesImage =>
          /\ formatted' \in {Null, [str |-> SavedPath]}
          /\ existsSync(files, SavedPath) =>
                 formatted' = [str |-> SavedPath] /\ files'.files = files.files
          /\ files'.files # files.files =>
                 /\ ~existsSync(files, SavedPath)
                 /\ files'.files = files.files \cup
                        {[path |-> SavedPath, data |-> formatArgs.content]}]_vars

\* a call found the file of an earlier save, with other bytes in it, in a
\* directory that takes no writes, and returned its path
C23_Witness ==
    /\ SavesImage
    /\ formatted = [str |-> SavedPath]
    /\ ~files.writable
    /\ formatArgs.content = Str_hello
    /\ files.files = {[path |-> SavedPath, data |-> <<1>>]}

(***************************************************************************)
(* The SSE server, under SseSpec.                                          *)
(***************************************************************************)
\* C27: whenever an SSE connection is open the transport slot is defined,
\* so POST /messages is answered with 400 only when no connection is open,
\* whatever the order in which clients connect and disconnect.
C27_SlotDefinedWhileOpen ==
    (\E c \in SseClients : connections[c] = "open") => transport # "undefined"

(***************************************************************************)
(* The show_ordinals tool, under ToolSpec.                                 *)
(***************************************************************************)
\* C17: a show_ordinals call whose formatImageOption is 'base64', or is
\* left out, writes no file, and an image it shows is given as a data URI
C17_Base64WritesNoFile ==
    [][toolArgs'.formatImageOption # "file" =>
          /\ files'.files = files.files
          /\ toolResult'.kind = "image" =>
                 startsWith(toolResult'.imgSrc, Str_data_colon)]_vars

\* the inscriptions of the transaction the last call was about
ShownOrdinals == cache[toolArgs.txid].data.extractedOrdinals

\* the last call was about a transaction that has inscriptions, none of
\* them an image
ShownNoImage ==
    /\ toolResult # NotYet
    /\ ValidArgs(toolArgs)
    /\ cache[toolArgs.txid] # Null
    /\ ShownOrdinals # <<>>
    /\ \A n \in 1..Len(ShownOrdinals) :
           ~startsWith(ShownOrdinals[n].contentType, Str_image_slash)

\* C18: show_ordinals on a transaction all of whose inscriptions are
\* non-image returns their formatted content and no error message; a single
\* text/plain inscription whose text does not begin with { or [ is returned
\* as that text
C18_NonImageAsText ==
    ShownNoImage =>
        /\ toolResult.kind = "text"
        /\ ( /\ Len(ShownOrdinals) = 1
             /\ ShownOrdinals[1].contentType = Str_text_plain
             /\ ShownOrdinals[1].content[1] \notin {123, 91} )
           => toolResult.text = ShownOrdinals[1].content

\* C28: a txid is recorded in successfulDecodings only by a show_ordinals
\* call that ends with an image result; a call that ends in the error
\* response leaves successfulDecodings as it was.
C28_MarkedOnlyOnImage ==
    [][/\ toolResult'.kind = "error" => successfulDecodings' = successfulDecodings
       /\ successfulDecodings' # successfulDecodings => toolResult'.kind = "image"]_vars

\* C29: handleGetTransaction answers TOOL CALL BLOCKED for a txid only
\* within 5 minutes of the last successful decoding of that txid.
C29_BlockedOnlyWithinWindow ==
    (toolResult # NotYet /\ toolResult.kind = "blocked") =>
        /\ successfulDecodings[toolResult.txid] # -1
        /\ toolResult.at - successfulDecodings[toolResult.txid] <= recentMs
\* C30: SimpleCache.get(key) returns the stored data exactly when an entry
\* exists and now - timestamp <= ttlMs, deletes the entry of key exactly
\* when it exists and is older than that, leaves an entry it returns as it
\* is, timestamp included, and changes no other key's entry.
C30_GetBoundaryAndFrame ==
    [][\A c \in Callers, key \in Txids :
          (/\ calls[c].pc = "idle"
           /\ calls'[c].pc = "done"
           /\ calls'[c].op = "get"
           /\ calls'[c].txid = key) =>
              /\ calls'[c].value =
                     IF cache[key] # Null /\ now - cache[key].timestamp <= ttlMs
                     THEN cache[key].data ELSE Null
              /\ cache'[key] =
                     IF cache[key] # Null /\ now - cache[key].timestamp > ttlMs
                     THEN Null ELSE cache[key]
              /\ \A other \in Txids \ {key} : cache'[other] = cache[other]]_vars

\* a get that returned an entry aged exactly the TTL and left it, and the
\* expired entry of the other key, in place
C30_Witness ==
    \E c \in Callers :
        /\ calls[c].pc = "done"
        /\ calls[c].op = "get"
        /\ calls[c].value # Null
        /\ calls[c].age = ttlMs
        /\ cache[calls[c].txid] # Null
        /\ now - cache[calls[c].txid].timestamp = ttlMs
        /\ \E other \in Txids \ {calls[c].txid} :
               cache[other] # Null /\ now - cache[other].timestamp > ttlMs
=============================================================================
